---- MODULE Spec2Model ----
(***************************************************************************)
(* GainSpend: a Telegram bot for income / expense bookkeeping.             *)
(*                                                                         *)
(* Two revisions of the bot live in the repository:                        *)
(*   src/bot.py        the 6-state revision ("bot"): one-line entry        *)
(*                     "amount, text", summary and detailed statistics;    *)
(*   src/GainSpend.py  the 7-state revision ("gs"): amount and description *)
(*                     asked in separate prompts, summary statistics only. *)
(*                                                                         *)
(* Texts are sequences of characters.  A character is written as a string  *)
(* token: an ASCII character stands for itself ("1", ",", " ", "x"); a     *)
(* Cyrillic letter is written "cy_<latin>" (lower case) or "CY_<LATIN>"    *)
(* (upper case), e.g. "cy_o" is U+043E and "CY_O" is U+041E; an emoji is   *)
(* written "em_<name>".  Transliteration used: a=а b=б v=в g=г d=д e=е     *)
(* yo=ё zh=ж z=з i=и j=й k=к l=л m=м n=н o=о p=п r=р s=с t=т u=у f=ф h=х   *)
(* c=ц ch=ч sh=ш shch=щ hard=ъ y=ы soft=ь eh=э yu=ю ya=я.  A white-space   *)
(* character TLA+ has no escape for is written by its code point: "x0b" is *)
(* U+000B, "xa0" is U+00A0, "u2028" is U+2028.                             *)
(*                                                                         *)
(* A Python float obtained from a decimal literal is the exact decimal     *)
(* [neg, num, exp] with value (-1)^neg * num / 10^exp.  The NUMERIC(12,2)  *)
(* column holds an integer number of hundredths (kopecks).                 *)
(*                                                                         *)
(* Every user talks to the bot in their private chat, so the key           *)
(* (chat id, user id) of a ConversationHandler is the user id.             *)
(***************************************************************************)
EXTENDS Integers, Sequences, FiniteSets, TLC

VARIABLES
    rev,        \* which revision is running: "bot" (src/bot.py) or "gs" (src/GainSpend.py)
    conv,       \* conv[u][d]: state of user u in ConversationHandler d
    user_data,  \* user_data[u]: context.user_data of user u, a dict (function on its keys)
    records,    \* the records table, in insertion order
    now,        \* the machine's clock as last read: the UTC time, an instant (see MonthStart)
    zone,       \* what the machine's local time is ahead of UTC, in instants
    msg,        \* the last message received
    out,        \* what handling the last message did: user, handler run, reply sent
    arg,        \* argument of the last pure-function application
    ret,        \* the function applied to arg and what it returned
    chat        \* chat.sent[u]: the statistics report user u was sent last, if no row
                \* was inserted since (see Chat); empty where no reports are kept

vars == <<rev, conv, user_data, records, now, zone, msg, out, arg, ret, chat>>

(***************************************************************************)
(* Characters and Python's str methods                                     *)
(***************************************************************************)
\* Python's None, for a text, an amount and a datetime.  "None" is no character, and
\* no amount or instant is negative.
NoneText == <<"None">>

NoneAmount == [num |-> 0 - 1, exp |-> 0]

NoneDate == 0 - 1

DigitSeq == <<"0", "1", "2", "3", "4", "5", "6", "7", "8", "9">>

IsDigit(c) == \E i \in 1..10 : DigitSeq[i] = c

DigitVal(c) == (CHOOSE i \in 1..10 : DigitSeq[i] = c) - 1

\* the characters str.isspace() holds for
WhiteSpace ==
    { " ", "\t", "\n", "\r", "\f", "x0b", "x1c", "x1d", "x1e", "x1f", "x85", "xa0",
      "u1680", "u2000", "u2001", "u2002", "u2003", "u2004", "u2005", "u2006",
      "u2007", "u2008", "u2009", "u200a", "u2028", "u2029", "u202f", "u205f",
      "u3000" }

\* what str.strip() takes for white space
IsSpace(c) == c \in WhiteSpace

\* what int() and float() take for white space around a number: the characters of
\* str.isspace() but the four separators U+001C..U+001F
NumberSpace == WhiteSpace \ {"x1c", "x1d", "x1e", "x1f"}

\* The capital letters of the Cyrillic (Russian) and the Latin alphabet, each
\* with its lower case.
UpperLower ==
    [ CY_A |-> "cy_a", CY_B |-> "cy_b", CY_V |-> "cy_v", CY_G |-> "cy_g",
      CY_D |-> "cy_d", CY_E |-> "cy_e", CY_YO |-> "cy_yo", CY_ZH |-> "cy_zh",
      CY_Z |-> "cy_z", CY_I |-> "cy_i", CY_J |-> "cy_j", CY_K |-> "cy_k",
      CY_L |-> "cy_l", CY_M |-> "cy_m", CY_N |-> "cy_n", CY_O |-> "cy_o",
      CY_P |-> "cy_p", CY_R |-> "cy_r", CY_S |-> "cy_s", CY_T |-> "cy_t",
      CY_U |-> "cy_u", CY_F |-> "cy_f", CY_H |-> "cy_h", CY_C |-> "cy_c",
      CY_CH |-> "cy_ch", CY_SH |-> "cy_sh", CY_SHCH |-> "cy_shch", CY_HARD |-> "cy_hard",
      CY_Y |-> "cy_y", CY_SOFT |-> "cy_soft", CY_EH |-> "cy_eh", CY_YU |-> "cy_yu",
      CY_YA |-> "cy_ya", A |-> "a", B |-> "b", C |-> "c", D |-> "d", E |-> "e",
      F |-> "f", G |-> "g", H |-> "h", I |-> "i", J |-> "j", K |-> "k", L |-> "l",
      M |-> "m", N |-> "n", O |-> "o", P |-> "p", Q |-> "q", R |-> "r", S |-> "s",
      T |-> "t", U |-> "u", V |-> "v", W |-> "w", X |-> "x", Y |-> "y", Z |-> "z" ]

LowerChar(c) == IF c \in DOMAIN UpperLower THEN UpperLower[c] ELSE c

\* str.lower()
Lower(s) == [i \in 1..Len(s) |-> LowerChar(s[i])]

RECURSIVE LStrip(_)
LStrip(s) == IF s # <<>> /\ IsSpace(Head(s)) THEN LStrip(Tail(s)) ELSE s

RECURSIVE RStrip(_)
RStrip(s) == IF s # <<>> /\ IsSpace(s[Len(s)]) THEN RStrip(SubSeq(s, 1, Len(s) - 1)) ELSE s

\* str.strip()
Strip(s) == RStrip(LStrip(s))

\* str.replace(a, b) for single characters a, b
Replace(s, a, b) == [i \in 1..Len(s) |-> IF s[i] = a THEN b ELSE s[i]]

\* sub in s
Contains(sub, s) ==
    \E i \in 0..(Len(s) - Len(sub)) : SubSeq(s, i + 1, i + Len(sub)) = sub

\* position of the first c in s, 0 when there is none
IndexOf(s, c) ==
    IF \E i \in 1..Len(s) : s[i] = c
    THEN CHOOSE i \in 1..Len(s) : s[i] = c /\ \A j \in 1..(i - 1) : s[j] # c
    ELSE 0

\* str.split(c): the fields between the occurrences of c
RECURSIVE Split(_, _)
Split(s, c) ==
    LET i == IndexOf(s, c) IN
    IF i = 0 THEN <<s>>
    ELSE <<SubSeq(s, 1, i - 1)>> \o Split(SubSeq(s, i + 1, Len(s)), c)

\* str.split(c, 1): at most one split, at the first c
Split1(s, c) ==
    LET i == IndexOf(s, c) IN
    IF i = 0 THEN <<s>>
    ELSE <<SubSeq(s, 1, i - 1), SubSeq(s, i + 1, Len(s))>>

RECURSIVE Pow10(_)
Pow10(n) == IF n = 0 THEN 1 ELSE 10 * Pow10(n - 1)

\* value of a sequence of digits
RECURSIVE DigitsVal(_)
DigitsVal(s) ==
    IF s = <<>> THEN 0 ELSE 10 * DigitsVal(SubSeq(s, 1, Len(s) - 1)) + DigitVal(s[Len(s)])

\* digits, with single underscores allowed between them (as int() and float() read them)
DigitGroup(s) ==
    /\ \A i \in 1..Len(s) : IsDigit(s[i]) \/ s[i] = "_"
    /\ \A i \in 1..Len(s) : s[i] = "_" => (i > 1 /\ i < Len(s) /\ s[i + 1] # "_")

\* s without its underscores
NoUnderscore(s) ==
    LET kept == {i \in 1..Len(s) : s[i] # "_"}
    IN  IF Cardinality(kept) = Len(s) THEN s
        ELSE [k \in 1..Cardinality(kept) |->
                 s[CHOOSE i \in kept : Cardinality({j \in kept : j <= i}) = k]]

\* s without the white space int() and float() skip at its two ends
StripNumber(s) ==
    LET kept == {i \in 1..Len(s) : s[i] \notin NumberSpace}
    IN  IF kept = {} THEN <<>>
        ELSE SubSeq(s, CHOOSE i \in kept : \A j \in kept : i <= j,
                       CHOOSE i \in kept : \A j \in kept : j <= i)

\* int(s): surrounding whitespace, an optional sign, one or more digits.
\* [ok |-> FALSE] stands for ValueError.
PyInt(s) ==
    LET t == StripNumber(s)
        signed == t # <<>> /\ Head(t) \in {"+", "-"}
        body == IF signed THEN Tail(t) ELSE t
        digits == NoUnderscore(body)
    IN  IF body # <<>> /\ DigitGroup(body)
        THEN [ok |-> TRUE,
              val |-> IF signed /\ Head(t) = "-" THEN 0 - DigitsVal(digits) ELSE DigitsVal(digits)]
        ELSE [ok |-> FALSE, val |-> 0]

\* s without its leading zeros
NoLeadingZeros(s) ==
    LET kept == {i \in 1..Len(s) : s[i] # "0"}
    IN  IF kept = {} THEN <<>>
        ELSE SubSeq(s, CHOOSE i \in kept : \A j \in kept : i <= j, Len(s))

\* for sequences of digits a and b: the decimal fraction 0.a is at most 0.b
FracLeq(a, b) ==
    LET Digit(s, i) == IF i <= Len(s) THEN DigitVal(s[i]) ELSE 0
        differ == {i \in 1..(Len(a) + Len(b)) : Digit(a, i) # Digit(b, i)}
        First(S) == CHOOSE i \in S : \A j \in S : i <= j
    IN  differ = {} \/ Digit(a, First(differ)) < Digit(b, First(differ))

\* The significant digits of 2^1024 - 2^970 = 1.797...e308, halfway between the
\* largest double and 2^1024: a literal of this value or more reads as inf.
OverflowFrom ==
    << "1", "7", "9", "7", "6", "9", "3", "1", "3", "4", "8", "6", "2", "3", "1", "5",
       "8", "0", "7", "9", "3", "7", "2", "8", "9", "7", "1", "4", "0", "5", "3", "0",
       "3", "4", "1", "5", "0", "7", "9", "9", "3", "4", "1", "3", "2", "7", "1", "0",
       "0", "3", "7", "8", "2", "6", "9", "3", "6", "1", "7", "3", "7", "7", "8", "9",
       "8", "0", "4", "4", "4", "9", "6", "8", "2", "9", "2", "7", "6", "4", "7", "5",
       "0", "9", "4", "6", "6", "4", "9", "0", "1", "7", "9", "7", "7", "5", "8", "7",
       "2", "0", "7", "0", "9", "6", "3", "3", "0", "2", "8", "6", "4", "1", "6", "6",
       "9", "2", "8", "8", "7", "9", "1", "0", "9", "4", "6", "5", "5", "5", "5", "4",
       "7", "8", "5", "1", "9", "4", "0", "4", "0", "2", "6", "3", "0", "6", "5", "7",
       "4", "8", "8", "6", "7", "1", "5", "0", "5", "8", "2", "0", "6", "8", "1", "9",
       "0", "8", "9", "0", "2", "0", "0", "0", "7", "0", "8", "3", "8", "3", "6", "7",
       "6", "2", "7", "3", "8", "5", "4", "8", "4", "5", "8", "1", "7", "7", "1", "1",
       "5", "3", "1", "7", "6", "4", "4", "7", "5", "7", "3", "0", "2", "7", "0", "0",
       "6", "9", "8", "5", "5", "5", "7", "1", "3", "6", "6", "9", "5", "9", "6", "2",
       "2", "8", "4", "2", "9", "1", "4", "8", "1", "9", "8", "6", "0", "8", "3", "4",
       "9", "3", "6", "4", "7", "5", "2", "9", "2", "7", "1", "9", "0", "7", "4", "1",
       "6", "8", "4", "4", "4", "3", "6", "5", "5", "1", "0", "7", "0", "4", "3", "4",
       "2", "7", "1", "1", "5", "5", "9", "6", "9", "9", "5", "0", "8", "0", "9", "3",
       "0", "4", "2", "8", "8", "0", "1", "7", "7", "9", "0", "4", "1", "7", "4", "4",
       "9", "7", "7", "9", "2" >>

\* The significant digits of 2^-1075 = 2.470...e-324, half the least positive
\* double: a literal of this value or less reads as zero.
UnderflowTo ==
    << "2", "4", "7", "0", "3", "2", "8", "2", "2", "9", "2", "0", "6", "2", "3", "2",
       "7", "2", "0", "8", "8", "2", "8", "4", "3", "9", "6", "4", "3", "4", "1", "1",
       "0", "6", "8", "6", "1", "8", "2", "5", "2", "9", "9", "0", "1", "3", "0", "7",
       "1", "6", "2", "3", "8", "2", "2", "1", "2", "7", "9", "2", "8", "4", "1", "2",
       "5", "0", "3", "3", "7", "7", "5", "3", "6", "3", "5", "1", "0", "4", "3", "7",
       "5", "9", "3", "2", "6", "4", "9", "9", "1", "8", "1", "8", "0", "8", "1", "7",
       "9", "9", "6", "1", "8", "9", "8", "9", "8", "2", "8", "2", "3", "4", "7", "7",
       "2", "2", "8", "5", "8", "8", "6", "5", "4", "6", "3", "3", "2", "8", "3", "5",
       "5", "1", "7", "7", "9", "6", "9", "8", "9", "8", "1", "9", "9", "3", "8", "7",
       "3", "9", "8", "0", "0", "5", "3", "9", "0", "9", "3", "9", "0", "6", "3", "1",
       "5", "0", "3", "5", "6", "5", "9", "5", "1", "5", "5", "7", "0", "2", "2", "6",
       "3", "9", "2", "2", "9", "0", "8", "5", "8", "3", "9", "2", "4", "4", "9", "1",
       "0", "5", "1", "8", "4", "4", "3", "5", "9", "3", "1", "8", "0", "2", "8", "4",
       "9", "9", "3", "6", "5", "3", "6", "1", "5", "2", "5", "0", "0", "3", "1", "9",
       "3", "7", "0", "4", "5", "7", "6", "7", "8", "2", "4", "9", "2", "1", "9", "3",
       "6", "5", "6", "2", "3", "6", "6", "9", "8", "6", "3", "6", "5", "8", "4", "8",
       "0", "7", "5", "7", "0", "0", "1", "5", "8", "5", "7", "6", "9", "2", "6", "9",
       "9", "0", "3", "7", "0", "6", "3", "1", "1", "9", "2", "8", "2", "7", "9", "5",
       "5", "8", "5", "5", "1", "3", "3", "2", "9", "2", "7", "8", "3", "4", "3", "3",
       "8", "4", "0", "9", "3", "5", "1", "9", "7", "8", "0", "1", "5", "5", "3", "1",
       "2", "4", "6", "5", "9", "7", "2", "6", "3", "5", "7", "9", "5", "7", "4", "6",
       "2", "2", "7", "6", "6", "4", "6", "5", "2", "7", "2", "8", "2", "7", "2", "2",
       "0", "0", "5", "6", "3", "7", "4", "0", "0", "6", "4", "8", "5", "4", "9", "9",
       "9", "7", "7", "0", "9", "6", "5", "9", "9", "4", "7", "0", "4", "5", "4", "0",
       "2", "0", "8", "2", "8", "1", "6", "6", "2", "2", "6", "2", "3", "7", "8", "5",
       "7", "3", "9", "3", "4", "5", "0", "7", "3", "6", "3", "3", "9", "0", "0", "7",
       "9", "6", "7", "7", "6", "1", "9", "3", "0", "5", "7", "7", "5", "0", "6", "7",
       "4", "0", "1", "7", "6", "3", "2", "4", "6", "7", "3", "6", "0", "0", "9", "6",
       "8", "9", "5", "1", "3", "4", "0", "5", "3", "5", "5", "3", "7", "4", "5", "8",
       "5", "1", "6", "6", "6", "1", "1", "3", "4", "2", "2", "3", "7", "6", "6", "6",
       "7", "8", "6", "0", "4", "1", "6", "2", "1", "5", "9", "6", "8", "0", "4", "6",
       "1", "9", "1", "4", "4", "6", "7", "2", "9", "1", "8", "4", "0", "3", "0", "0",
       "5", "3", "0", "0", "5", "7", "5", "3", "0", "8", "4", "9", "0", "4", "8", "7",
       "6", "5", "3", "9", "1", "7", "1", "1", "3", "8", "6", "5", "9", "1", "6", "4",
       "6", "2", "3", "9", "5", "2", "4", "9", "1", "2", "6", "2", "3", "6", "5", "3",
       "8", "8", "1", "8", "7", "9", "6", "3", "6", "2", "3", "9", "3", "7", "3", "2",
       "8", "0", "4", "2", "3", "8", "9", "1", "0", "1", "8", "6", "7", "2", "3", "4",
       "8", "4", "9", "7", "6", "6", "8", "2", "3", "5", "0", "8", "9", "8", "6", "3",
       "3", "8", "8", "5", "8", "7", "9", "2", "5", "6", "2", "8", "3", "0", "2", "7",
       "5", "5", "9", "9", "5", "6", "5", "7", "5", "2", "4", "4", "5", "5", "5", "0",
       "7", "2", "5", "5", "1", "8", "9", "3", "1", "3", "6", "9", "0", "8", "3", "6",
       "2", "5", "4", "7", "7", "9", "1", "8", "6", "9", "4", "8", "6", "6", "7", "9",
       "9", "4", "9", "6", "8", "3", "2", "4", "0", "4", "9", "7", "0", "5", "8", "2",
       "1", "0", "2", "8", "5", "1", "3", "1", "8", "5", "4", "5", "1", "3", "9", "6",
       "2", "1", "3", "8", "3", "7", "7", "2", "2", "8", "2", "6", "1", "4", "5", "4",
       "3", "7", "6", "9", "3", "4", "1", "2", "5", "3", "2", "0", "9", "8", "5", "9",
       "1", "3", "2", "7", "6", "6", "7", "2", "3", "6", "3", "2", "8", "1", "2", "5" >>

\* float(s): surrounding whitespace, an optional sign, and then either a decimal
\* literal (digits with at most one period and at least one digit, then an
\* optional exponent: e or E, an optional sign, digits) or one of the words
\* nan, inf, infinity in any case (special names which).  [ok |-> FALSE] is
\* ValueError.  The value of a literal is num / 10^exp; exp is negative only when
\* num * 10^(-exp) has more than nine digits.  A literal of 2^1024 - 2^970
\* (1.797...e308) or more reads as inf and one of 2^-1075 (2.470...e-324) or less
\* as zero, as the IEEE double does (round to nearest, ties to even).  The
\* model holds nine significant digits: of a longer literal of 10^10 or more
\* (which the amount column cannot hold) or under 0.001 (which the column rounds
\* to 0.00) it keeps the first nine.
PyFloat(s) ==
    LET Float(neg, num, exp, special) ==
            [ok |-> TRUE, neg |-> neg, num |-> num, exp |-> exp, special |-> special]
        \* the value of the significant digits sig, fd of them after the
        \* period, times 10^ev
        Value(neg, sig, fd, ev) ==
            LET order == Len(sig) - 1 - fd + ev       \* sig[1].sig[2]... * 10^order
            IN  IF sig = <<>> THEN Float(neg, 0, 0, "")
                ELSE IF \/ order > 308
                        \/ order = 308
                           /\ FracLeq(OverflowFrom, sig)
                THEN Float(neg, 0, 0, "inf")
                ELSE IF \/ order < 0 - 324
                        \/ order = 0 - 324
                           /\ FracLeq(sig, UnderflowTo)
                THEN Float(neg, 0, 0, "")
                ELSE IF Len(sig) > 9 /\ (order >= 10 \/ order <= 0 - 4)
                THEN Float(neg, DigitsVal(SubSeq(sig, 1, 9)), 8 - order, "")
                ELSE IF fd - ev < 0 /\ Len(sig) + ev - fd <= 9
                THEN Float(neg, DigitsVal(sig) * Pow10(ev - fd), 0, "")
                ELSE Float(neg, DigitsVal(sig), fd - ev, "")
        \* the exponent written as the digits ed, leading zeros dropped
        Exponent(minus, ed) ==
            IF Len(ed) > 4 THEN (IF minus THEN 0 - 9999 ELSE 9999)
            ELSE IF minus THEN 0 - DigitsVal(ed) ELSE DigitsVal(ed)
        \* the literal with integer part ip, fraction fp and, when hasE, the
        \* exponent text etext, whose digits are edigits
        Literal(neg, ip, fp, hasE, etext, edigits) ==
            IF ~ /\ DigitGroup(ip) /\ DigitGroup(fp)
                 /\ Len(ip) + Len(fp) >= 1
                 /\ hasE => (edigits # <<>> /\ DigitGroup(edigits))
            THEN [ok |-> FALSE, neg |-> FALSE, num |-> 0, exp |-> 0, special |-> ""]
            ELSE Value(neg, NoLeadingZeros(NoUnderscore(ip \o fp)), Len(NoUnderscore(fp)),
                       Exponent(etext # <<>> /\ Head(etext) = "-",
                                NoLeadingZeros(NoUnderscore(edigits))))
        Parts(neg, parts, hasE, etext) ==
            IF Len(parts) > 2
            THEN [ok |-> FALSE, neg |-> FALSE, num |-> 0, exp |-> 0, special |-> ""]
            ELSE Literal(neg, parts[1], IF Len(parts) = 2 THEN parts[2] ELSE <<>>, hasE, etext,
                         IF etext # <<>> /\ Head(etext) \in {"+", "-"} THEN Tail(etext) ELSE etext)
        \* body is the text after the sign, word its lower case, e the place of
        \* its first e
        Word(neg, body, word, e) ==
            IF word = <<"n", "a", "n">> THEN Float(FALSE, 0, 0, "nan")
            ELSE IF word \in {<<"i", "n", "f">>, <<"i", "n", "f", "i", "n", "i", "t", "y">>}
            THEN Float(neg, 0, 0, "inf")
            ELSE Parts(neg, Split(IF e = 0 THEN body ELSE SubSeq(body, 1, e - 1), "."), e # 0,
                       IF e = 0 THEN <<>> ELSE SubSeq(body, e + 1, Len(body)))
        Lowered(neg, body, word) == Word(neg, body, word, IndexOf(word, "e"))
        Unsigned(neg, body) == Lowered(neg, body, Lower(body))
        Stripped(t) ==
            IF t # <<>> /\ Head(t) \in {"+", "-"} THEN Unsigned(Head(t) = "-", Tail(t))
            ELSE Unsigned(FALSE, t)
    IN  Stripped(StripNumber(s))

\* amount <= 0 for a parsed float: False for nan, as every comparison with nan
NonPositive(f) ==
    IF f.special = "nan" THEN FALSE
    ELSE IF f.special = "inf" THEN f.neg
    ELSE f.neg \/ f.num = 0

\* the float as a value of the model: sign dropped (only floats that are not
\* <= 0 are kept)
Amount(f) ==
    IF f.special = "nan" THEN [num |-> 0 - 2, exp |-> 0]       \* float("nan")
    ELSE IF f.special = "inf" THEN [num |-> 0 - 3, exp |-> 0]  \* float("inf")
    ELSE [num |-> f.num, exp |-> f.exp]

\* equality of two amounts as numbers
SameAmount(a, b) ==
    LET m == IF a.exp < b.exp THEN a.exp ELSE b.exp
    IN  a.num * Pow10(b.exp - m) = b.num * Pow10(a.exp - m)

(***************************************************************************)
(* Texts of the buttons and keywords                                       *)
(***************************************************************************)
T_Income == <<"em_plus", " ", "CY_D", "cy_o", "cy_h", "cy_o", "cy_d">>

T_Expense == <<"em_minus", " ", "CY_R", "cy_a", "cy_s", "cy_h", "cy_o", "cy_d">>

T_Stats == <<"em_chart", " ", "CY_S", "cy_t", "cy_a", "cy_t", "cy_i", "cy_s", "cy_t", "cy_i", "cy_k", "cy_a">>

T_otmena == <<"cy_o", "cy_t", "cy_m", "cy_e", "cy_n", "cy_a">>

T_slash_cancel == <<"/", "c", "a", "n", "c", "e", "l">>

T_cancel == <<"c", "a", "n", "c", "e", "l">>

C_Eda == <<"CY_E", "cy_d", "cy_a">>

C_Dom == <<"CY_D", "cy_o", "cy_m">>

C_Kommunalka == <<"CY_K", "cy_o", "cy_m", "cy_m", "cy_u", "cy_n", "cy_a", "cy_l", "cy_k", "cy_a">>

C_Dosug == <<"CY_D", "cy_o", "cy_s", "cy_u", "cy_g">>

C_NZ == <<"CY_N", "CY_Z">>

T_CurrentMonth == <<"CY_T", "cy_e", "cy_k", "cy_u", "cy_shch", "cy_i", "cy_j", " ", "cy_m", "cy_e", "cy_s", "cy_ya", "cy_c">>

T_AllTime == <<"CY_Z", "cy_a", " ", "cy_v", "cy_s", "cy_yo", " ", "cy_v", "cy_r", "cy_e", "cy_m", "cy_ya">>

T_ChooseMonth == <<"CY_V", "cy_y", "cy_b", "cy_r", "cy_a", "cy_t", "cy_soft", " ", "cy_m", "cy_e", "cy_s", "cy_ya", "cy_c">>

T_Detailed == <<"CY_D", "cy_e", "cy_t", "cy_a", "cy_l", "cy_soft", "cy_n", "cy_o">>

T_Summary == <<"CY_O", "cy_b", "cy_shch", "cy_e", "cy_e">>

(***************************************************************************)
(* Helpers of both revisions                                               *)
(***************************************************************************)
\* EXPENSE_CATEGORIES (the same list in src/GainSpend.py, line 41)
EXPENSE_CATEGORIES == <<C_Eda, C_Dom, C_Kommunalka, C_Dosug, C_NZ>>

\* the least number of a non-empty set of numbers
Least(S) == CHOOSE i \in S : \A j \in S : i <= j

\* extract_category as it would be if the category found first in the text won
extract_category_FirstInText(text) ==
    LET t == Strip(text)
        hits == {i \in 1..Len(EXPENSE_CATEGORIES) : Contains(EXPENSE_CATEGORIES[i], t)}
        At(i) == Least({k \in 1..Len(t) :
                          /\ k + Len(EXPENSE_CATEGORIES[i]) - 1 <= Len(t)
                          /\ SubSeq(t, k, k + Len(EXPENSE_CATEGORIES[i]) - 1) = EXPENSE_CATEGORIES[i]})
    IN  IF hits = {} THEN NoneText
        ELSE EXPENSE_CATEGORIES[CHOOSE i \in hits : \A j \in hits : At(i) <= At(j)]

\* src/bot.py extract_category: the for loop returns at the first category found
extract_category(text) ==
    LET t == Strip(text)
        hits == {i \in 1..Len(EXPENSE_CATEGORIES) : Contains(EXPENSE_CATEGORIES[i], t)}
    IN  IF hits = {} THEN NoneText ELSE EXPENSE_CATEGORIES[Least(hits)]

EndsWith(s, suffix) ==
    Len(suffix) <= Len(s) /\ SubSeq(s, Len(s) - Len(suffix) + 1, Len(s)) = suffix

\* src/GainSpend.py extract_category_from_button
extract_category_from_button(text) ==
    LET t == Strip(text)
        hits == {i \in 1..Len(EXPENSE_CATEGORIES) :
                    \/ t = EXPENSE_CATEGORIES[i]
                    \/ EndsWith(t, EXPENSE_CATEGORIES[i])
                    \/ Contains(EXPENSE_CATEGORIES[i], t)}
    IN  IF hits = {} THEN NoneText ELSE EXPENSE_CATEGORIES[Least(hits)]

\* parse_month_mm_yy as it would be without the check of the month
parse_month_mm_yy_AnyMonth(text) ==
    LET f == Split(text, "-")
        mm == PyInt(f[1])
        yy == PyInt(f[2])
        bad == [ok |-> FALSE, year |-> 0, month |-> 0]
    IN  IF Len(f) # 2 THEN bad
        ELSE IF ~mm.ok \/ ~yy.ok THEN bad
        ELSE [ok |-> TRUE, year |-> 2000 + yy.val, month |-> mm.val]

\* src/bot.py parse_month_mm_yy: [ok |-> FALSE] is ValueError("Неверный формат")
parse_month_mm_yy(text) ==
    LET f == Split(text, "-")
        mm == PyInt(f[1])
        yy == PyInt(f[2])
        bad == [ok |-> FALSE, year |-> 0, month |-> 0]
    IN  IF Len(f) # 2 THEN bad                       \* unpacking fails
        ELSE IF ~mm.ok \/ ~yy.ok THEN bad            \* int() fails
        ELSE IF ~(1 <= mm.val /\ mm.val <= 12) THEN bad
        ELSE [ok |-> TRUE, year |-> 2000 + yy.val, month |-> mm.val]

\* src/GainSpend.py parse_mm_yy: [ok |-> FALSE] is the ValueError it lets escape
parse_mm_yy(text) ==
    LET f == Split(text, "-")
        month == PyInt(f[1])
        year2 == PyInt(f[2])
        bad == [ok |-> FALSE, year |-> 0, month |-> 0]
    IN  IF Len(f) # 2 THEN bad
        ELSE IF ~month.ok THEN bad
        ELSE IF ~year2.ok THEN bad
        ELSE IF ~(1 <= month.val /\ month.val <= 12) THEN bad
        ELSE [ok |-> TRUE, year |-> 2000 + year2.val, month |-> month.val]

\* src/bot.py is_cancel
is_cancel(text) ==
    LET t == Lower(Strip(text)) IN t \in {T_otmena, T_slash_cancel, T_cancel}

\* src/bot.py parse_amount_and_text: err is the ValueError's message, "ok" for a return
parse_amount_and_text(line) ==
    LET bad(e) == [err |-> e, amount |-> NoneAmount, description |-> <<>>]
        parts == Split1(line, ",")
        amount_str == Replace(Strip(parts[1]), ",", ".")
        amount == PyFloat(amount_str)
        description == Strip(parts[2])
    IN  IF is_cancel(line) THEN bad("cancel")
        ELSE IF IndexOf(line, ",") = 0 THEN bad("format")
        ELSE IF ~amount.ok \/ NonPositive(amount) THEN bad("amount")
        ELSE IF description = <<>> THEN bad("desc")
        ELSE [err |-> "ok", amount |-> Amount(amount), description |-> description]

(***************************************************************************)
(* Bounds of the model                                                     *)
(***************************************************************************)
\* the users who write to the bot (Telegram user ids)
Users == DOMAIN conv

\* rows of one user the records table can hold before the model stops
\* inserting for that user
MaxRecords == 1

\* instants per calendar month: instant 0 of a month is its first day, 00:00
TicksPerMonth == 2

(***************************************************************************)
(* Dates: datetime, date                                                   *)
(***************************************************************************)
\* datetime.MAXYEAR: date(year, ...) raises ValueError outside 1..9999
MAXYEAR == 9999

\* datetime.combine(date(year, month, 1), datetime.min.time()) as an instant
MonthStart(year, month) == (year * 12 + (month - 1)) * TicksPerMonth

YearOf(t) == (t \div TicksPerMonth) \div 12

MonthOf(t) == ((t \div TicksPerMonth) % 12) + 1

\* date(year, month, 1) does not raise
ValidDate(year, month) == 1 <= year /\ year <= MAXYEAR /\ 1 <= month /\ month <= 12

\* the clock when the bot starts: the middle of December 2025
StartInstant == MonthStart(2025, 12) + 1

\* the clock runs up to this instant, the first of January 2026
MaxNow == StartInstant + 1

\* What a reading of the clock can give (datetime.utcnow() in add_record, the
\* date.today() of get_current_month_range): the instant last read or a later one.
Readings == {now} \cup (now..MaxNow)

\* the zones the machine can be in: local time one instant behind UTC, UTC, one
\* instant ahead
Zones == {0 - 1, 0, 1}

\* The range of the month (year, month), as get_current_month_range and both
\* stats_custom_month build it: first = date(year, month, 1), next_month the first
\* day of the month after, both combined with 00:00.  err tells which date
\* raised ValueError: "first", "next", or "" for none.
month_range(year, month) ==
    LET next_month == IF month = 12
                      THEN [year |-> year + 1, month |-> 1]
                      ELSE [year |-> year, month |-> month + 1]
    IN  IF ~ValidDate(year, month)
        THEN [err |-> "first", date_from |-> NoneDate, date_to |-> NoneDate]
        ELSE IF ~ValidDate(next_month.year, next_month.month)
        THEN [err |-> "next", date_from |-> NoneDate, date_to |-> NoneDate]
        ELSE [err |-> "",
              date_from |-> MonthStart(year, month),
              date_to |-> MonthStart(next_month.year, next_month.month)]

\* get_current_month_range (the same function in src/GainSpend.py, lines 305-313):
\* the range of the month of date.today(), which is the local date: today is the
\* local time when the clock is read
get_current_month_range(today) == month_range(YearOf(today), MonthOf(today))

\* str(n) for n >= 0
RECURSIVE IntStr(_)
IntStr(n) == IF n < 10 THEN <<DigitSeq[n + 1]>> ELSE IntStr(n \div 10) \o <<DigitSeq[(n % 10) + 1]>>

\* f"{n:02d}" for n >= 0
Fmt02d(n) == IF n < 10 THEN <<"0">> \o IntStr(n) ELSE IntStr(n)

\* s[-2:]
LastTwo(s) == IF Len(s) <= 2 THEN s ELSE SubSeq(s, Len(s) - 1, Len(s))

T_Month == <<"CY_M", "cy_e", "cy_s", "cy_ya", "cy_c">>

\* f"Месяц {month:02d}-{str(year)[-2:]}"
MonthLabel(year, month) == T_Month \o <<" ">> \o Fmt02d(month) \o <<"-">> \o LastTwo(IntStr(year))

(***************************************************************************)
(* The records table                                                       *)
(***************************************************************************)
\* NaN as a NUMERIC value and as the float a sum of NUMERIC values is read as
\* (float(row[1])).  The amounts of the model are 0 .. 2^31 - 1 hundredths, so a
\* sum of them is 0 or more and a difference of two sums -(2^31 - 1) or more:
\* NaN is the one integer below them all.
NaN == 0 - 2147483647 - 1

\* a float stored in a NUMERIC(12,2) column: nan stays NaN, a number is rounded to
\* hundredths, half away from zero (a.num has at most nine digits, so from 13
\* fraction digits on it rounds to 0; the model holds amounts under 2^31 hundredths)
ToNumeric(a) ==
    IF a.num = 0 - 2 THEN NaN
    ELSE IF a.exp <= 2 THEN a.num * Pow10(2 - a.exp)
    ELSE (IF a.exp > 11 THEN 0 ELSE a.num \div Pow10(a.exp - 2))
         + (IF a.exp <= 12 /\ (a.num \div Pow10(a.exp - 3)) % 10 >= 5 THEN 1 ELSE 0)

\* the INSERT raises for this amount: NULL in a NOT NULL column, or a value
\* NUMERIC(12,2) cannot hold (an infinity, or 10^10 and more)
Unstorable(amount) ==
    \/ amount.num \in {0 - 1, 0 - 3}
    \/ amount.num > 0 /\ Len(IntStr(amount.num)) - 1 - amount.exp >= 10

\* add_record as it would be if the new row were put in front of the table's
\* only slot, replacing what the table held
add_record_Replaces(user_id, type_, amount, description, category, utcnow) ==
    IF Unstorable(amount)
    THEN [ok |-> FALSE, records |-> records]
    ELSE [ok |-> TRUE,
          records |-> <<[user_id |-> user_id, type |-> type_, category |-> category,
                         amount |-> ToNumeric(amount), description |-> description,
                         created_at |-> utcnow]>>]

\* add_record (the same function in src/GainSpend.py, lines 83-94): the table after
\* the INSERT; ok = FALSE when the statement raises.  utcnow is what
\* datetime.utcnow() returns, the UTC time when the clock is read.
add_record(user_id, type_, amount, description, category, utcnow) ==
    IF Unstorable(amount)
    THEN [ok |-> FALSE, records |-> records]
    ELSE [ok |-> TRUE,
          records |-> Append(records,
              [user_id |-> user_id, type |-> type_, category |-> category,
               amount |-> ToNumeric(amount), description |-> description,
               created_at |-> utcnow])]

\* The bound on the table: add_record itself has no limit, the model follows a
\* user's inserts until the user has MaxRecords rows. Tables of more rows are
\* the ones SpecLedger and SpecStats start from.
HasRoom(u) == Cardinality({i \in 1..Len(records) : records[i].user_id = u}) < MaxRecords

\* the WHERE clause as it would be if the upper bound were inclusive
Selected_UpToInclusive(r, user_id, date_from, date_to) ==
    /\ r.user_id = user_id
    /\ date_from # NoneDate => r.created_at >= date_from
    /\ date_to # NoneDate => r.created_at <= date_to

\* the WHERE clause of get_stats and get_records
Selected(r, user_id, date_from, date_to) ==
    /\ r.user_id = user_id
    /\ date_from # NoneDate => r.created_at >= date_from
    /\ date_to # NoneDate => r.created_at < date_to

\* the sum of a sequence of numbers: NaN when one of them is
RECURSIVE SumSeq(_)
SumSeq(s) ==
    IF s = <<>> THEN 0
    ELSE IF Head(s) = NaN \/ SumSeq(Tail(s)) = NaN THEN NaN
    ELSE Head(s) + SumSeq(Tail(s))

\* a - b for floats
Minus(a, b) == IF a = NaN \/ b = NaN THEN NaN ELSE a - b

Rows(recs) == {recs[i] : i \in 1..Len(recs)}

\* get_stats (the same function in src/GainSpend.py, lines 97-138): the two dicts,
\* SUM(amount) ... GROUP BY type, and SUM(amount) ... AND type = 'expense' GROUP BY category
get_stats(user_id, date_from, date_to) ==
    LET sel == {r \in Rows(records) : Selected(r, user_id, date_from, date_to)}
        types == {r.type : r \in sel}
        cats == {r.category : r \in {x \in sel : x.type = "expense"}}
        OfType(t) == SumSeq([i \in 1..Len(records) |->
                        IF /\ Selected(records[i], user_id, date_from, date_to)
                           /\ records[i].type = t
                        THEN records[i].amount ELSE 0])
        OfCat(c) == SumSeq([i \in 1..Len(records) |->
                        IF /\ Selected(records[i], user_id, date_from, date_to)
                           /\ records[i].type = "expense"
                           /\ records[i].category = c
                        THEN records[i].amount ELSE 0])
    IN  [sums |-> [t \in types |-> OfType(t)],
         categories |-> [c \in cats |-> OfCat(c)]]

(***************************************************************************)
(* context.user_data: a dict                                               *)
(***************************************************************************)
EmptyDict == [k \in {} |-> NoneText]

\* d.get(k), with the None of the value's type
Get(d, k, none) == IF k \in DOMAIN d THEN d[k] ELSE none

\* d[k] = v
Put(d, k, v) == [x \in (DOMAIN d) \cup {k} |-> IF x = k THEN v ELSE d[x]]

\* d.pop(k, None)
Pop(d, k) == [x \in (DOMAIN d) \ {k} |-> d[x]]

\* ORDER BY type: text order, 'expense' before 'income'
TypeRank(t) == IF t = "expense" THEN 0 ELSE 1

\* the texts COALESCE(category, '') can be, in the text order of the database
CategoryOrder == << <<>>, C_Dom, C_Dosug, C_Eda, C_Kommunalka, C_NZ >>

\* ORDER BY COALESCE(category, '')
CategoryRank(c) ==
    LET k == IF c = NoneText THEN <<>> ELSE c
    IN  CHOOSE i \in 1..Len(CategoryOrder) : CategoryOrder[i] = k

\* row a sorts strictly before row b under ORDER BY type, COALESCE(category, ''), created_at
RowBefore(a, b) ==
    \/ TypeRank(a.type) < TypeRank(b.type)
    \/ /\ TypeRank(a.type) = TypeRank(b.type)
       /\ \/ CategoryRank(a.category) < CategoryRank(b.category)
          \/ /\ CategoryRank(a.category) = CategoryRank(b.category)
             /\ a.created_at < b.created_at

\* rows with r put after the last row that does not sort after it
RECURSIVE InsertRow(_, _)
InsertRow(rows, r) ==
    IF rows = <<>> THEN <<r>>
    ELSE IF RowBefore(r, Head(rows)) THEN <<r>> \o rows
    ELSE <<Head(rows)>> \o InsertRow(Tail(rows), r)

RECURSIVE SortRows(_)
SortRows(rows) ==
    IF rows = <<>> THEN <<>>
    ELSE InsertRow(SortRows(SubSeq(rows, 1, Len(rows) - 1)), rows[Len(rows)])

\* the rows of recs the WHERE clause selects, in the order of recs
RECURSIVE Filter(_, _, _, _)
Filter(recs, user_id, date_from, date_to) ==
    IF recs = <<>> THEN <<>>
    ELSE (IF Selected(Head(recs), user_id, date_from, date_to) THEN <<Head(recs)>> ELSE <<>>)
         \o Filter(Tail(recs), user_id, date_from, date_to)

\* src/bot.py get_records: rows (type, category, amount, description, created_at)
get_records(user_id, date_from, date_to) ==
    LET Row(r) == [type |-> r.type, category |-> r.category, amount |-> r.amount,
                   description |-> r.description, created_at |-> r.created_at]
        sel == Filter(records, user_id, date_from, date_to)
    IN  SortRows([i \in 1..Len(sel) |-> Row(sel[i])])

(***************************************************************************)
(* Messages and their dispatch (Application.process_update over the        *)
(* handlers main() registers, all in one group: the first handler whose    *)
(* check accepts the update handles it, the others never see it)           *)
(***************************************************************************)
END == "END"

Convs == <<"income_conv", "expense_conv", "stats_conv">>

Idle == [income_conv |-> END, expense_conv |-> END, stats_conv |-> END]

\* a message: a bot command (/name) or a text that is no command
Command(name) == [command |-> name, text |-> <<>>]

Text(t) == [command |-> "", text |-> t]

IsText(m) == m.command = ""

\* entry_points of the three ConversationHandlers, the same in both revisions
EntryButton(d) ==
    CASE d = "income_conv" -> T_Income
      [] d = "expense_conv" -> T_Expense
      [] d = "stats_conv" -> T_Stats

EntryCommand(d) ==
    CASE d = "income_conv" -> "income"
      [] d = "expense_conv" -> "expense"
      [] d = "stats_conv" -> "stats"

\* ConversationHandler.check_update, conversation d, user u, message m.
\* An idle conversation takes its entry command and its entry button:
\* filters.Regex("^...$") searches the text with re.search, and $ matches at the
\* end of the text and before a newline that ends it.
Enters(u, m, d) ==
    /\ conv[u][d] = END
    /\ \/ m.command = EntryCommand(d)
       \/ IsText(m) /\ m.text \in {EntryButton(d), EntryButton(d) \o <<"\n">>}

\* in state s it takes every text that is no command (filters.TEXT & ~filters.COMMAND):
InState(u, m, d, s) == conv[u][d] = s /\ IsText(m)

\* and in every state the fallback takes /cancel
Fallback(u, m, d) == conv[u][d] # END /\ m.command = "cancel"

\* conversation d takes the message
Accepts(u, m, d) ==
    IF conv[u][d] = END THEN Enters(u, m, d)
    ELSE IsText(m) \/ m.command = "cancel"

\* the conversations main() added before conversation d
Earlier(d) ==
    CASE d = "income_conv" -> {}
      [] d = "expense_conv" -> {"income_conv"}
      [] d = "stats_conv" -> {"income_conv", "expense_conv"}

\* The message reaches conversation d: no handler added before d takes it (the
\* start command handler is the first of the group)
Reaches(u, m, d) ==
    /\ m.command # "start"
    /\ \A e \in Earlier(d) : ~Accepts(u, m, e)

\* no handler of the group takes message m of user u
TakenByNone(u, m) ==
    /\ m.command # "start"
    /\ \A i \in 1..Len(Convs) : ~Accepts(u, m, Convs[i])

\* the replies that carry a statistics report
Reports == {"summary", "stats", "detailed", "no_records"}

\* no report kept
NoReport == [reply |-> "", body |-> <<>>]

\* the chats of the users in U before any report is sent
NoChat(U) == [sent |-> [u \in U |-> NoReport], last |-> 0, turn |-> ""]

\* The chats after a handler run for user u left the table as recs and sent
\* reply with body. A row inserted (the table grew): no report is kept. A report sent to u: it is
\* the one kept for u, u is the user sent a report last, and turn tells whether
\* the report kept for u before was of the same kind and period ("again"), with
\* a report sent to another user between the two ("amid"), or not ("first").
Chat(u, recs, reply, body) ==
    IF DOMAIN chat = {} THEN chat
    ELSE IF Len(recs) > Len(records) THEN NoChat(DOMAIN chat.sent)
    ELSE IF reply \notin Reports THEN chat
    ELSE LET again == chat.sent[u].reply = reply /\ chat.sent[u].body.label = body.label
         IN  [sent |-> [chat.sent EXCEPT ![u] = [reply |-> reply, body |-> body]],
              last |-> u,
              turn |-> IF ~again THEN "first" ELSE IF chat.last = u THEN "again" ELSE "amid"]

\* Returns as it would be if the handlers kept their scratch in
\* context.bot_data, one dict for all users
Returns_SharedData(u, d, s, ud, recs, handler, reply, body) ==
    /\ conv' = [conv EXCEPT ![u][d] = s]
    /\ user_data' = [v \in DOMAIN user_data |-> ud]
    /\ records' = recs
    /\ out' = [user |-> u, conv |-> d, handler |-> handler, reply |-> reply, body |-> body]
    /\ chat' = Chat(u, recs, reply, body)
    /\ UNCHANGED <<rev, now, zone, arg, ret>>

\* A handler of conversation d returned state s: the conversation moves to s;
\* ud is the user's user_data and recs the table as the handler left them, and
\* reply the message it sent; body holds the figures of a statistics report.
Returns(u, d, s, ud, recs, handler, reply, body) ==
    /\ conv' = [conv EXCEPT ![u][d] = s]
    /\ user_data' = [user_data EXCEPT ![u] = ud]
    /\ records' = recs
    /\ out' = [user |-> u, conv |-> d, handler |-> handler, reply |-> reply, body |-> body]
    /\ chat' = Chat(u, recs, reply, body)
    /\ UNCHANGED <<rev, now, zone, arg, ret>>

\* Returns for a handler that read the clock: t is the reading
ReturnsAt(t, u, d, s, ud, recs, handler, reply, body) ==
    /\ conv' = [conv EXCEPT ![u][d] = s]
    /\ user_data' = [user_data EXCEPT ![u] = ud]
    /\ records' = recs
    /\ out' = [user |-> u, conv |-> d, handler |-> handler, reply |-> reply, body |-> body]
    /\ chat' = Chat(u, recs, reply, body)
    /\ now' = t
    /\ UNCHANGED <<rev, zone, arg, ret>>

\* A handler raised: the conversation keeps its state and nothing is sent;
\* user_data and the table are as the handler left them.
Raises(u, d, ud, recs, handler) ==
    /\ user_data' = [user_data EXCEPT ![u] = ud]
    /\ records' = recs
    /\ out' = [user |-> u, conv |-> d, handler |-> handler, reply |-> "", body |-> <<>>]
    /\ chat' = Chat(u, recs, "", <<>>)
    /\ UNCHANGED <<rev, conv, now, zone, arg, ret>>

\* A statement of add_record, get_stats or get_records raised inside a handler of
\* conversation d (get_conn, execute or commit: the store is down): nothing is
\* written, and as for every raise the conversation keeps its state and
\* nothing is sent; body names the exception.
StoreFails(u, d, handler) ==
    /\ out' = [user |-> u, conv |-> d, handler |-> handler, reply |-> "",
               body |-> <<"psycopg.Error">>]
    /\ UNCHANGED <<rev, conv, user_data, records, now, zone, arg, ret, chat>>

\* reply_text raised in a handler of conversation d (telegram.error.NetworkError,
\* TimedOut): the handler ends there, before what follows the call (its return,
\* and the pops of the handlers that insert), so the conversation keeps its
\* state and nothing is sent; ud is the user's user_data and recs the table as
\* written before the call.
ReplyFails(u, d, ud, recs, handler) ==
    /\ user_data' = [user_data EXCEPT ![u] = ud]
    /\ records' = recs
    /\ out' = [user |-> u, conv |-> d, handler |-> handler, reply |-> "",
               body |-> <<"telegram.error.NetworkError">>]
    /\ chat' = Chat(u, recs, "", <<>>)
    /\ UNCHANGED <<rev, conv, now, zone, arg, ret>>

\* ReplyFails for a handler that read the clock: t is the reading
ReplyFailsAt(t, u, d, ud, recs, handler) ==
    /\ user_data' = [user_data EXCEPT ![u] = ud]
    /\ records' = recs
    /\ out' = [user |-> u, conv |-> d, handler |-> handler, reply |-> "",
               body |-> <<"telegram.error.NetworkError">>]
    /\ chat' = Chat(u, recs, "", <<>>)
    /\ now' = t
    /\ UNCHANGED <<rev, conv, zone, arg, ret>>

\* The last statements of a handler, await update.message.reply_text(...) and
\* return s, with ud and recs as the handler wrote them before: either the reply
\* is sent and the handler returns, or reply_text raises.
Replies(u, d, s, ud, recs, handler, reply, body) ==
    \/ Returns(u, d, s, ud, recs, handler, reply, body)
    \/ ReplyFails(u, d, ud, recs, handler)

\* the outcome o is that of a handler whose reply_text raised
ReplyFailed(o) == o.reply = "" /\ o.body = <<"telegram.error.NetworkError">>

(***************************************************************************)
(* src/bot.py: the handlers of the 6-state revision                        *)
(***************************************************************************)
\* start: the main menu; registered outside the conversations
Bot_start(u, m) ==
    /\ \/ out' = [user |-> u, conv |-> "", handler |-> "start", reply |-> "menu", body |-> <<>>]
       \/ out' = [user |-> u, conv |-> "", handler |-> "start", reply |-> "",
                  body |-> <<"telegram.error.NetworkError">>]
    /\ UNCHANGED <<rev, conv, user_data, records, now, zone, arg, ret, chat>>

Bot_income_start(u, m) ==
    Replies(u, "income_conv", "INCOME_LINE", user_data[u], records,
               "income_start", "ask_income_line", <<>>)

income_line(u, m) ==
    LET p == parse_amount_and_text(m.text)
        Say(s, reply) == Replies(u, "income_conv", s, user_data[u], records,
                                 "income_line", reply, <<>>)
    IN  IF is_cancel(m.text) THEN Say(END, "income_cancelled")
        ELSE IF p.err = "cancel" THEN Say(END, "income_cancelled")
        ELSE IF p.err = "format" THEN Say("INCOME_LINE", "income_format")
        ELSE IF p.err = "amount" THEN Say("INCOME_LINE", "income_bad_amount")
        ELSE IF p.err = "desc" THEN Say("INCOME_LINE", "income_no_source")
        ELSE /\ HasRoom(u)
             /\ \/ StoreFails(u, "income_conv", "income_line")
                \/ \E t \in Readings :
                      LET ins == add_record(u, "income", p.amount, p.description, NoneText, t)
                      IN  IF ~ins.ok
                          THEN Raises(u, "income_conv", user_data[u], records, "income_line")
                          ELSE \/ ReplyFailsAt(t, u, "income_conv", user_data[u], ins.records,
                                               "income_line")
                               \/ ReturnsAt(t, u, "income_conv", END, user_data[u], ins.records,
                                            "income_line", "income_saved", <<>>)

Bot_expense_start(u, m) ==
    Replies(u, "expense_conv", "EXPENSE_CATEGORY", user_data[u], records,
               "expense_start", "ask_category", <<>>)

\* expense_category as it would be if an unknown category ended the dialog
Bot_expense_category_Ends(u, m) ==
    LET cat == extract_category(m.text)
    IN  IF cat = NoneText
        THEN Replies(u, "expense_conv", END, user_data[u], records,
                     "expense_category", "choose_category", <<>>)
        ELSE Replies(u, "expense_conv", "EXPENSE_LINE",
                     Put(user_data[u], "expense_category", cat), records,
                     "expense_category", "ask_expense_line", <<>>)

Bot_expense_category(u, m) ==
    LET cat == extract_category(m.text)
    IN  IF cat = NoneText
        THEN Replies(u, "expense_conv", "EXPENSE_CATEGORY", user_data[u], records,
                     "expense_category", "choose_category", <<>>)
        ELSE Replies(u, "expense_conv", "EXPENSE_LINE",
                     Put(user_data[u], "expense_category", cat), records,
                     "expense_category", "ask_expense_line", <<>>)

\* expense_line as it would be if the category were popped in a finally block:
\* a failed insert loses the category
expense_line_PopsAlways(u, m) ==
    LET p == parse_amount_and_text(m.text)
        category == Get(user_data[u], "expense_category", NoneText)
        Say(s, ud, reply) == Replies(u, "expense_conv", s, ud, records,
                                     "expense_line", reply, <<>>)
    IN  IF is_cancel(m.text)
        THEN Say(END, Pop(user_data[u], "expense_category"), "expense_cancelled")
        ELSE IF p.err = "cancel"
        THEN Say(END, Pop(user_data[u], "expense_category"), "expense_cancelled")
        ELSE IF p.err = "format" THEN Say("EXPENSE_LINE", user_data[u], "expense_format")
        ELSE IF p.err = "amount" THEN Say("EXPENSE_LINE", user_data[u], "expense_bad_amount")
        ELSE IF p.err = "desc" THEN Say("EXPENSE_LINE", user_data[u], "expense_no_target")
        ELSE /\ HasRoom(u)
             /\ \/ /\ user_data' = [user_data EXCEPT ![u] = Pop(user_data[u], "expense_category")]
                   /\ out' = [user |-> u, conv |-> "expense_conv", handler |-> "expense_line",
                              reply |-> "", body |-> <<"psycopg.Error">>]
                   /\ UNCHANGED <<rev, conv, records, now, zone, arg, ret, chat>>
                \/ \E t \in Readings :
                      LET ins == add_record(u, "expense", p.amount, p.description, category, t)
                      IN  IF ~ins.ok
                          THEN Raises(u, "expense_conv", user_data[u], records, "expense_line")
                          ELSE \/ ReplyFailsAt(t, u, "expense_conv", user_data[u], ins.records,
                                               "expense_line")
                               \/ ReturnsAt(t, u, "expense_conv", END,
                                            Pop(user_data[u], "expense_category"), ins.records,
                                            "expense_line", "expense_saved", <<>>)

expense_line(u, m) ==
    LET p == parse_amount_and_text(m.text)
        category == Get(user_data[u], "expense_category", NoneText)
        Say(s, ud, reply) == Replies(u, "expense_conv", s, ud, records,
                                     "expense_line", reply, <<>>)
    IN  IF is_cancel(m.text)
        THEN Say(END, Pop(user_data[u], "expense_category"), "expense_cancelled")
        ELSE IF p.err = "cancel"
        THEN Say(END, Pop(user_data[u], "expense_category"), "expense_cancelled")
        ELSE IF p.err = "format" THEN Say("EXPENSE_LINE", user_data[u], "expense_format")
        ELSE IF p.err = "amount" THEN Say("EXPENSE_LINE", user_data[u], "expense_bad_amount")
        ELSE IF p.err = "desc" THEN Say("EXPENSE_LINE", user_data[u], "expense_no_target")
        ELSE /\ HasRoom(u)
             /\ \/ StoreFails(u, "expense_conv", "expense_line")
                \/ \E t \in Readings :
                      LET ins == add_record(u, "expense", p.amount, p.description, category, t)
                      IN  IF ~ins.ok
                          THEN Raises(u, "expense_conv", user_data[u], records, "expense_line")
                          ELSE \/ ReplyFailsAt(t, u, "expense_conv", user_data[u], ins.records,
                                               "expense_line")
                               \/ ReturnsAt(t, u, "expense_conv", END,
                                            Pop(user_data[u], "expense_category"), ins.records,
                                            "expense_line", "expense_saved", <<>>)

Bot_stats_start(u, m) ==
    Replies(u, "stats_conv", "STATS_PERIOD", user_data[u], records,
               "stats_start", "ask_period", <<>>)

\* ask_detail_or_summary: asks, and returns STATS_DETAIL_LEVEL
ask_detail_or_summary(u, ud, handler) ==
    Replies(u, "stats_conv", "STATS_DETAIL_LEVEL", ud, records, handler, "ask_detail", <<>>)

\* stats_period as it would be if "all time" stored no range, the absent
\* range standing for it
Bot_stats_period_AllTimeUnset(u, m) ==
    LET choice == Strip(m.text)
        \* ask_detail_or_summary, the clock read at t
        Ask(t, ud) ==
            \/ ReturnsAt(t, u, "stats_conv", "STATS_DETAIL_LEVEL", ud, records,
                         "stats_period", "ask_detail", <<>>)
            \/ ReplyFailsAt(t, u, "stats_conv", ud, records, "stats_period")
    IN  IF choice = T_CurrentMonth
        THEN \E t \in Readings :
               LET range == get_current_month_range(t + zone)
               IN  IF range.err # ""                           \* first.replace(year=...)
                   THEN Raises(u, "stats_conv", user_data[u], records, "stats_period")
                   ELSE Ask(t, Put(user_data[u], "stats_range",
                                   <<range.date_from, range.date_to, T_CurrentMonth>>))
        ELSE IF choice = T_AllTime
        THEN ask_detail_or_summary(u, user_data[u], "stats_period")
        ELSE IF choice = T_ChooseMonth
        THEN Replies(u, "stats_conv", "STATS_CUSTOM_MONTH", user_data[u], records,
                     "stats_period", "ask_month", <<>>)
        ELSE Replies(u, "stats_conv", "STATS_PERIOD", user_data[u], records,
                     "stats_period", "choose_period", <<>>)

Bot_stats_period(u, m) ==
    LET choice == Strip(m.text)
        \* ask_detail_or_summary, the clock read at t
        Ask(t, ud) ==
            \/ ReturnsAt(t, u, "stats_conv", "STATS_DETAIL_LEVEL", ud, records,
                         "stats_period", "ask_detail", <<>>)
            \/ ReplyFailsAt(t, u, "stats_conv", ud, records, "stats_period")
    IN  IF choice = T_CurrentMonth
        THEN \E t \in Readings :
               LET range == get_current_month_range(t + zone)
               IN  IF range.err # ""                           \* first.replace(year=...)
                   THEN Raises(u, "stats_conv", user_data[u], records, "stats_period")
                   ELSE Ask(t, Put(user_data[u], "stats_range",
                                   <<range.date_from, range.date_to, T_CurrentMonth>>))
        ELSE IF choice = T_AllTime
        THEN ask_detail_or_summary(u,
                 Put(user_data[u], "stats_range", <<NoneDate, NoneDate, T_AllTime>>),
                 "stats_period")
        ELSE IF choice = T_ChooseMonth
        THEN Replies(u, "stats_conv", "STATS_CUSTOM_MONTH", user_data[u], records,
                     "stats_period", "ask_month", <<>>)
        ELSE Replies(u, "stats_conv", "STATS_PERIOD", user_data[u], records,
                     "stats_period", "choose_period", <<>>)

Bot_stats_custom_month(u, m) ==
    LET p == parse_month_mm_yy(Strip(m.text))
        range == month_range(p.year, p.month)
        label == MonthLabel(p.year, p.month)
    IN  IF ~p.ok
        THEN Replies(u, "stats_conv", "STATS_CUSTOM_MONTH", user_data[u], records,
                     "stats_custom_month", "bad_month", <<>>)
        ELSE IF range.err = "first"                            \* date(year, month, 1)
        THEN Raises(u, "stats_conv", user_data[u], records, "stats_custom_month")
        ELSE IF range.err = "next"                             \* date(year + 1, 1, 1)
        THEN Raises(u, "stats_conv", user_data[u], records, "stats_custom_month")
        ELSE ask_detail_or_summary(u,
                 Put(user_data[u], "stats_range", <<range.date_from, range.date_to, label>>),
                 "stats_custom_month")

\* d.get(k, 0.0) for a dict of sums
GetSum(d, k) == IF k \in DOMAIN d THEN d[k] ELSE 0

\* send_summary_stats as it would be if the reserve were not spent money:
\* "on hand" leaves the reserve out of the expenses
send_summary_stats_ReserveKept(sums, cats, period_label) ==
    LET income == GetSum(sums, "income")
        expense == GetSum(sums, "expense")
        nz_amount == GetSum(cats, C_NZ)
        on_hands == Minus(income, Minus(expense, nz_amount))
    IN  [label |-> period_label, income |-> income, expense |-> expense,
         nz_amount |-> nz_amount, on_hands |-> on_hands]

\* send_summary_stats: the figures of the report
send_summary_stats(sums, cats, period_label) ==
    LET income == GetSum(sums, "income")
        expense == GetSum(sums, "expense")
        nz_amount == GetSum(cats, C_NZ)
        on_hands == Minus(income, expense)
    IN  [label |-> period_label, income |-> income, expense |-> expense,
         nz_amount |-> nz_amount, on_hands |-> on_hands]

\* the rows of the given type, in order
RECURSIVE RowsOfType(_, _)
RowsOfType(rows, income) ==
    IF rows = <<>> THEN <<>>
    ELSE (IF (Head(rows).type = "income") = income THEN <<Head(rows)>> ELSE <<>>)
         \o RowsOfType(Tail(rows), income)

\* the rows of category c, in order
RECURSIVE RowsOfCategory(_, _)
RowsOfCategory(rows, c) ==
    IF rows = <<>> THEN <<>>
    ELSE (IF Head(rows).category = c THEN <<Head(rows)>> ELSE <<>>)
         \o RowsOfCategory(Tail(rows), c)

\* the categories of cats in the order of sorted(..., key=lambda c: c or "")
RECURSIVE SortedCategories(_, _)
SortedCategories(cats, k) ==
    IF k > Len(CategoryOrder) THEN <<>>
    ELSE (IF \E c \in cats : CategoryRank(c) = k
          THEN <<CHOOSE c \in cats : CategoryRank(c) = k>> ELSE <<>>)
         \o SortedCategories(cats, k + 1)

\* send_detailed_stats for a non-empty list of rows: the income lines, and one
\* section per expense category
send_detailed_stats(rows, period_label) ==
    LET expenses == RowsOfType(rows, FALSE)
        cats == SortedCategories({expenses[i].category : i \in 1..Len(expenses)}, 1)
    IN  [label |-> period_label,
         incomes |-> RowsOfType(rows, TRUE),
         expenses_by_cat |-> [i \in 1..Len(cats) |->
                                 [category |-> cats[i],
                                  lines |-> RowsOfCategory(expenses, cats[i])]]]

\* stats_detail_level as it would be if send_detailed_stats did not check for
\* an empty list of rows
stats_detail_level_AlwaysLists(u, m) ==
    LET choice == Strip(m.text)
        sr == Get(user_data[u], "stats_range", <<>>)
        stats == get_stats(u, sr[1], sr[2])
        rows == get_records(u, sr[1], sr[2])
        Say(s, reply, body) == Replies(u, "stats_conv", s, user_data[u], records,
                                       "stats_detail_level", reply, body)
    IN  IF sr = <<>> THEN Say(END, "period_not_found", <<>>)
        ELSE IF choice = T_Summary
        THEN \/ StoreFails(u, "stats_conv", "stats_detail_level")
             \/ Say(END, "summary", send_summary_stats(stats.sums, stats.categories, sr[3]))
        ELSE IF choice = T_Detailed
        THEN \/ StoreFails(u, "stats_conv", "stats_detail_level")
             \/ Say(END, "detailed", send_detailed_stats(rows, sr[3]))
        ELSE Say("STATS_DETAIL_LEVEL", "choose_detail", <<>>)

stats_detail_level(u, m) ==
    LET choice == Strip(m.text)
        sr == Get(user_data[u], "stats_range", <<>>)
        stats == get_stats(u, sr[1], sr[2])
        rows == get_records(u, sr[1], sr[2])
        Say(s, reply, body) == Replies(u, "stats_conv", s, user_data[u], records,
                                       "stats_detail_level", reply, body)
    IN  IF sr = <<>> THEN Say(END, "period_not_found", <<>>)
        ELSE IF choice = T_Summary
        THEN \/ StoreFails(u, "stats_conv", "stats_detail_level")
             \/ Say(END, "summary", send_summary_stats(stats.sums, stats.categories, sr[3]))
        ELSE IF choice = T_Detailed
        THEN \/ StoreFails(u, "stats_conv", "stats_detail_level")
             \/ IF rows = <<>> THEN Say(END, "no_records", [label |-> sr[3]])
                ELSE Say(END, "detailed", send_detailed_stats(rows, sr[3]))
        ELSE Say("STATS_DETAIL_LEVEL", "choose_detail", <<>>)

\* cancel as it would be if it sent its reply and left the dialog where it is
Bot_cancel_KeepsState(u, d) ==
    Replies(u, d, conv[u][d], user_data[u], records, "cancel", "cancelled", <<>>)

\* cancel: the fallback of each conversation; d is the conversation it ends
Bot_cancel(u, d) ==
    Replies(u, d, END, user_data[u], records, "cancel", "cancelled", <<>>)

(***************************************************************************)
(* src/GainSpend.py: the handlers of the 7-state revision                  *)
(***************************************************************************)
\* start: the main menu; registered outside the conversations, so the END it
\* returns goes to no conversation
GS_start(u, m) ==
    /\ \/ out' = [user |-> u, conv |-> "", handler |-> "start", reply |-> "menu", body |-> <<>>]
       \/ out' = [user |-> u, conv |-> "", handler |-> "start", reply |-> "",
                  body |-> <<"telegram.error.NetworkError">>]
    /\ UNCHANGED <<rev, conv, user_data, records, now, zone, arg, ret, chat>>

GS_income_start(u, m) ==
    Replies(u, "income_conv", "INCOME_AMOUNT", user_data[u], records,
               "income_start", "ask_income_amount", <<>>)

income_amount(u, m) ==
    LET amount == PyFloat(Strip(Replace(m.text, ",", ".")))
    IN  IF ~amount.ok \/ NonPositive(amount)
        THEN Replies(u, "income_conv", "INCOME_AMOUNT", user_data[u], records,
                     "income_amount", "bad_amount", <<>>)
        ELSE Replies(u, "income_conv", "INCOME_DESC",
                     Put(user_data[u], "income_amount", Amount(amount)), records,
                     "income_amount", "ask_income_desc", <<>>)

income_desc(u, m) ==
    /\ HasRoom(u)
    /\ LET description == Strip(m.text)
           amount == Get(user_data[u], "income_amount", NoneAmount)
       IN  \/ StoreFails(u, "income_conv", "income_desc")
           \/ \E t \in Readings :
                 LET ins == add_record(u, "income", amount, description, NoneText, t)
                 IN  IF ~ins.ok
                     THEN Raises(u, "income_conv", user_data[u], records, "income_desc")
                     ELSE \/ ReplyFailsAt(t, u, "income_conv", user_data[u], ins.records,
                                          "income_desc")
                          \/ ReturnsAt(t, u, "income_conv", END,
                                       Pop(user_data[u], "income_amount"), ins.records,
                                       "income_desc", "income_saved", <<>>)

GS_expense_start(u, m) ==
    Replies(u, "expense_conv", "EXPENSE_CATEGORY", user_data[u], records,
               "expense_start", "ask_category", <<>>)

GS_expense_category(u, m) ==
    LET raw == Strip(m.text)
        category == extract_category_from_button(raw)
    IN  IF category = NoneText
        THEN Replies(u, "expense_conv", "EXPENSE_CATEGORY", user_data[u], records,
                     "expense_category", "choose_category", <<>>)
        ELSE Replies(u, "expense_conv", "EXPENSE_AMOUNT",
                     Put(user_data[u], "expense_category", category), records,
                     "expense_category", "ask_expense_amount", <<>>)

expense_amount(u, m) ==
    LET amount == PyFloat(Strip(Replace(m.text, ",", ".")))
    IN  IF ~amount.ok \/ NonPositive(amount)
        THEN Replies(u, "expense_conv", "EXPENSE_AMOUNT", user_data[u], records,
                     "expense_amount", "bad_amount", <<>>)
        ELSE Replies(u, "expense_conv", "EXPENSE_DESC",
                     Put(user_data[u], "expense_amount", Amount(amount)), records,
                     "expense_amount", "ask_expense_desc", <<>>)

\* the keys of CATEGORY_EMOJI
HasEmoji(category) == \E i \in 1..Len(EXPENSE_CATEGORIES) : EXPENSE_CATEGORIES[i] = category

expense_desc(u, m) ==
    /\ HasRoom(u)
    /\ LET description == Strip(m.text)
           amount == Get(user_data[u], "expense_amount", NoneAmount)
           category == Get(user_data[u], "expense_category", NoneText)
       IN  \/ StoreFails(u, "expense_conv", "expense_desc")
           \/ \E t \in Readings :
                 LET ins == add_record(u, "expense", amount, description, category, t)
                 IN  IF ~ins.ok
                     THEN Raises(u, "expense_conv", user_data[u], records, "expense_desc")
                     ELSE IF ~HasEmoji(category)                  \* CATEGORY_EMOJI[category]
                     THEN /\ records' = ins.records              \* KeyError after the insert
                          /\ out' = [user |-> u, conv |-> "expense_conv",
                                     handler |-> "expense_desc", reply |-> "", body |-> <<>>]
                          /\ chat' = Chat(u, ins.records, "", <<>>)
                          /\ now' = t
                          /\ UNCHANGED <<rev, conv, user_data, zone, arg, ret>>
                     ELSE \/ ReplyFailsAt(t, u, "expense_conv", user_data[u], ins.records,
                                          "expense_desc")
                          \/ ReturnsAt(t, u, "expense_conv", END,
                                       Pop(Pop(user_data[u], "expense_amount"), "expense_category"),
                                       ins.records, "expense_desc", "expense_saved", <<>>)

GS_stats_start(u, m) ==
    Replies(u, "stats_conv", "STATS_PERIOD", user_data[u], records,
               "stats_start", "ask_period", <<>>)

\* send_stats: the figures of the report and the sections it shows
send_stats(sums, categories, period_label) ==
    LET income == GetSum(sums, "income")
        expense == GetSum(sums, "expense")
        balance == Minus(income, expense)
        nz_amount == GetSum(categories, C_NZ)
        other_cats == [c \in (DOMAIN categories) \ {C_NZ} |-> categories[c]]
    IN  [label |-> period_label, income |-> income, expense |-> expense,
         balance |-> balance,
         by_category |-> other_cats,                   \* "Расходы по категориям:"
         show_by_category |-> DOMAIN other_cats # {},
         nz |-> nz_amount,                             \* "НЗ (Запас):"
         show_nz |-> nz_amount # 0]

\* str(d) of the date of the month start t: YYYY-MM-01
DateStr(t) ==
    LET y == IntStr(YearOf(t))
        pad == [i \in 1..(4 - Len(y)) |-> "0"]
    IN  pad \o y \o <<"-">> \o Fmt02d(MonthOf(t)) \o <<"-", "0", "1">>

\* stats_period as it would be if the all-time report archived the rows it covers
GS_stats_period_Archives(u, m) ==
    LET choice == Strip(m.text)
        \* the report of the month of range, the clock read at t
        Month(t, range, stats) ==
            IF range.err # ""                                  \* first_day.replace(year=...)
            THEN Raises(u, "stats_conv", user_data[u], records, "stats_period")
            ELSE \/ StoreFails(u, "stats_conv", "stats_period")
                 \/ ReturnsAt(t, u, "stats_conv", END, user_data[u], records, "stats_period",
                              "stats",
                              send_stats(stats.sums, stats.categories,
                                         T_CurrentMonth \o <<" ", "(">> \o DateStr(range.date_from)
                                         \o <<" ", "u_mdash", " ">> \o DateStr(range.date_to)
                                         \o <<")">>))
                 \/ ReplyFailsAt(t, u, "stats_conv", user_data[u], records, "stats_period")
        Current(t, range) == Month(t, range, get_stats(u, range.date_from, range.date_to))
        all == get_stats(u, NoneDate, NoneDate)
        Say(s, reply, body) == Replies(u, "stats_conv", s, user_data[u], records,
                                       "stats_period", reply, body)
    IN  IF choice = T_CurrentMonth
        THEN \E t \in Readings : Current(t, get_current_month_range(t + zone))
        ELSE IF choice = T_AllTime
        THEN \/ StoreFails(u, "stats_conv", "stats_period")
             \/ Replies(u, "stats_conv", END, user_data[u], <<>>, "stats_period", "stats",
                        send_stats(all.sums, all.categories, T_AllTime))
        ELSE IF choice = T_ChooseMonth
        THEN Say("STATS_CUSTOM_MONTH", "ask_month", <<>>)
        ELSE Say("STATS_PERIOD", "choose_period", <<>>)

GS_stats_period(u, m) ==
    LET choice == Strip(m.text)
        \* the report of the month of range, the clock read at t
        Month(t, range, stats) ==
            IF range.err # ""                                  \* first_day.replace(year=...)
            THEN Raises(u, "stats_conv", user_data[u], records, "stats_period")
            ELSE \/ StoreFails(u, "stats_conv", "stats_period")
                 \/ ReturnsAt(t, u, "stats_conv", END, user_data[u], records, "stats_period",
                              "stats",
                              send_stats(stats.sums, stats.categories,
                                         T_CurrentMonth \o <<" ", "(">> \o DateStr(range.date_from)
                                         \o <<" ", "u_mdash", " ">> \o DateStr(range.date_to)
                                         \o <<")">>))
                 \/ ReplyFailsAt(t, u, "stats_conv", user_data[u], records, "stats_period")
        Current(t, range) == Month(t, range, get_stats(u, range.date_from, range.date_to))
        all == get_stats(u, NoneDate, NoneDate)
        Say(s, reply, body) == Replies(u, "stats_conv", s, user_data[u], records,
                                       "stats_period", reply, body)
    IN  IF choice = T_CurrentMonth
        THEN \E t \in Readings : Current(t, get_current_month_range(t + zone))
        ELSE IF choice = T_AllTime
        THEN \/ StoreFails(u, "stats_conv", "stats_period")
             \/ Say(END, "stats", send_stats(all.sums, all.categories, T_AllTime))
        ELSE IF choice = T_ChooseMonth
        THEN Say("STATS_CUSTOM_MONTH", "ask_month", <<>>)
        ELSE Say("STATS_PERIOD", "choose_period", <<>>)

GS_stats_custom_month(u, m) ==
    LET p == parse_mm_yy(Strip(m.text))
        range == month_range(p.year, p.month)
        stats == get_stats(u, range.date_from, range.date_to)
        Say(s, reply, body) == Replies(u, "stats_conv", s, user_data[u], records,
                                       "stats_custom_month", reply, body)
    IN  IF ~p.ok THEN Say("STATS_CUSTOM_MONTH", "bad_month", <<>>)
        ELSE IF range.err = "first"                        \* date(year, month, 1), in the try
        THEN Say("STATS_CUSTOM_MONTH", "bad_month", <<>>)
        ELSE IF range.err = "next"                         \* first_day.replace(...)
        THEN Raises(u, "stats_conv", user_data[u], records, "stats_custom_month")
        ELSE \/ StoreFails(u, "stats_conv", "stats_custom_month")
             \/ Say(END, "stats",
                    send_stats(stats.sums, stats.categories, MonthLabel(p.year, p.month)))

\* cancel: the fallback of each conversation; d is the conversation it ends
GS_cancel(u, d) ==
    Replies(u, d, END, user_data[u], records, "cancel", "cancelled", <<>>)

(***************************************************************************)
(* The bot: messages arrive one at a time and each is handled to the end   *)
(* before the next (Application.process_update, no concurrent updates)     *)
(***************************************************************************)
Commands == {"start", "cancel", "income", "expense", "stats"}

\* texts users send: a button, the cancel keyword, a category, entry lines
\* (good, rounding to nothing, non-positive, empty description; every text
\* without a comma is a malformed line),
\* periods, months and detail levels
BotTexts ==
    { T_Income, T_otmena, <<"em_food", " ">> \o C_Eda,
      <<"5", ",", " ", "x">>, <<"0", ".", "0", "0", "1", ",", " ", "x">>,
      <<"0", ",", " ", "x">>, <<"5", ",">>,
      T_AllTime, T_ChooseMonth, <<"1", "2", "-", "2", "5">>,
      T_Detailed, T_Summary }

\* in the 7-state revision every text can end as the description of a record
GSTexts ==
    { T_otmena, <<"em_box", " ">> \o C_NZ, <<"0", ",", "5">>,
      T_AllTime, T_ChooseMonth }

BotMessages == {Command(c) : c \in Commands} \cup {Text(t) : t \in BotTexts}

GSMessages == {Command(c) : c \in Commands} \cup {Text(t) : t \in GSTexts}

\* the users there can be
AllUsers == {1, 2}

\* user u sends message m to the running revision
BotGets(u, m) == rev = "bot" /\ u \in Users /\ msg' = m

GSGets(u, m) == rev = "gs" /\ u \in Users /\ msg' = m

\* no handler takes the message: nothing happens
Unhandled(u, m) ==
    /\ out' = [user |-> u, conv |-> "", handler |-> "", reply |-> "", body |-> <<>>]
    /\ UNCHANGED <<rev, conv, user_data, records, now, zone, arg, ret, chat>>

NoMsg == [command |-> "", text |-> <<>>]

NoOut == [user |-> 0, conv |-> "", handler |-> "", reply |-> "", body |-> <<>>]

NoRet == [fn |-> "", val |-> <<>>]

Init ==
    /\ rev \in {"bot", "gs"}
    /\ conv = [u \in {1} |-> Idle]
    /\ user_data = [u \in {1} |-> EmptyDict]
    /\ records = <<>>
    /\ now = StartInstant
    /\ zone = 0
    /\ msg = NoMsg
    /\ out = NoOut
    /\ arg = <<>>
    /\ ret = NoRet
    /\ chat = <<>>

\* main() of src/bot.py: the handlers it registers
Bot_main(u, m) ==
    \/ BotGets(u, m) /\ m.command = "start" /\ Bot_start(u, m)
    \/ BotGets(u, m) /\ Enters(u, m, "income_conv") /\ Reaches(u, m, "income_conv") /\ Bot_income_start(u, m)
    \/ BotGets(u, m) /\ InState(u, m, "income_conv", "INCOME_LINE") /\ Reaches(u, m, "income_conv") /\ income_line(u, m)
    \/ BotGets(u, m) /\ Enters(u, m, "expense_conv") /\ Reaches(u, m, "expense_conv") /\ Bot_expense_start(u, m)
    \/ BotGets(u, m) /\ InState(u, m, "expense_conv", "EXPENSE_CATEGORY") /\ Reaches(u, m, "expense_conv") /\ Bot_expense_category(u, m)
    \/ BotGets(u, m) /\ InState(u, m, "expense_conv", "EXPENSE_LINE") /\ Reaches(u, m, "expense_conv") /\ expense_line(u, m)
    \/ BotGets(u, m) /\ Enters(u, m, "stats_conv") /\ Reaches(u, m, "stats_conv") /\ Bot_stats_start(u, m)
    \/ BotGets(u, m) /\ InState(u, m, "stats_conv", "STATS_PERIOD") /\ Reaches(u, m, "stats_conv") /\ Bot_stats_period(u, m)
    \/ BotGets(u, m) /\ InState(u, m, "stats_conv", "STATS_CUSTOM_MONTH") /\ Reaches(u, m, "stats_conv") /\ Bot_stats_custom_month(u, m)
    \/ BotGets(u, m) /\ InState(u, m, "stats_conv", "STATS_DETAIL_LEVEL") /\ Reaches(u, m, "stats_conv") /\ stats_detail_level(u, m)
    \/ BotGets(u, m) /\ Fallback(u, m, "income_conv") /\ Reaches(u, m, "income_conv") /\ Bot_cancel(u, "income_conv")
    \/ BotGets(u, m) /\ Fallback(u, m, "expense_conv") /\ Reaches(u, m, "expense_conv") /\ Bot_cancel(u, "expense_conv")
    \/ BotGets(u, m) /\ Fallback(u, m, "stats_conv") /\ Reaches(u, m, "stats_conv") /\ Bot_cancel(u, "stats_conv")
    \/ BotGets(u, m) /\ TakenByNone(u, m) /\ Unhandled(u, m)

\* main() of src/GainSpend.py
GS_main(u, m) ==
    \/ GSGets(u, m) /\ m.command = "start" /\ GS_start(u, m)
    \/ GSGets(u, m) /\ Enters(u, m, "income_conv") /\ Reaches(u, m, "income_conv") /\ GS_income_start(u, m)
    \/ GSGets(u, m) /\ InState(u, m, "income_conv", "INCOME_AMOUNT") /\ Reaches(u, m, "income_conv") /\ income_amount(u, m)
    \/ GSGets(u, m) /\ InState(u, m, "income_conv", "INCOME_DESC") /\ Reaches(u, m, "income_conv") /\ income_desc(u, m)
    \/ GSGets(u, m) /\ Enters(u, m, "expense_conv") /\ Reaches(u, m, "expense_conv") /\ GS_expense_start(u, m)
    \/ GSGets(u, m) /\ InState(u, m, "expense_conv", "EXPENSE_CATEGORY") /\ Reaches(u, m, "expense_conv") /\ GS_expense_category(u, m)
    \/ GSGets(u, m) /\ InState(u, m, "expense_conv", "EXPENSE_AMOUNT") /\ Reaches(u, m, "expense_conv") /\ expense_amount(u, m)
    \/ GSGets(u, m) /\ InState(u, m, "expense_conv", "EXPENSE_DESC") /\ Reaches(u, m, "expense_conv") /\ expense_desc(u, m)
    \/ GSGets(u, m) /\ Enters(u, m, "stats_conv") /\ Reaches(u, m, "stats_conv") /\ GS_stats_start(u, m)
    \/ GSGets(u, m) /\ InState(u, m, "stats_conv", "STATS_PERIOD") /\ Reaches(u, m, "stats_conv") /\ GS_stats_period(u, m)
    \/ GSGets(u, m) /\ InState(u, m, "stats_conv", "STATS_CUSTOM_MONTH") /\ Reaches(u, m, "stats_conv") /\ GS_stats_custom_month(u, m)
    \/ GSGets(u, m) /\ Fallback(u, m, "income_conv") /\ Reaches(u, m, "income_conv") /\ GS_cancel(u, "income_conv")
    \/ GSGets(u, m) /\ Fallback(u, m, "expense_conv") /\ Reaches(u, m, "expense_conv") /\ GS_cancel(u, "expense_conv")
    \/ GSGets(u, m) /\ Fallback(u, m, "stats_conv") /\ Reaches(u, m, "stats_conv") /\ GS_cancel(u, "stats_conv")
    \/ GSGets(u, m) /\ TakenByNone(u, m) /\ Unhandled(u, m)

\* Application.process_update over the polled updates: users send the texts of
\* the revision that runs, and the one handler that takes a message handles it
Next ==
    \/ \E u \in AllUsers, m \in BotMessages : Bot_main(u, m)
    \/ \E u \in AllUsers, m \in GSMessages : GS_main(u, m)

Spec == Init /\ [][Next]_vars


(***************************************************************************)
(* The pure helpers on their own: a text is drawn, and each helper is      *)
(* applied to it                                                           *)
(***************************************************************************)
\* longest text built from MonthChars
MaxLen == 4

MonthChars == {"0", "1", "3", "-", " ", "+", "x"}

\* every text over MonthChars of at most MaxLen characters, and longer named ones
MonthInputs ==
    (UNION {[1..k -> MonthChars] : k \in 0..MaxLen})
    \cup { <<"1", "1", "-", "2", "5">>, <<"1", "3", "-", "2", "5">>, <<"1", "1">>,
           <<"1", "2", "-", "9", "9">>, <<"0", "1", "-", "0", "0">>,
           <<"1", "_", "1", "-", "2", "5">>, <<"1", "1", "-", "2", "5", "-", "1">>,
           <<" ", "1", "1", " ", "-", " ", "2", "5", " ">>, <<"1", "1", ".", "2", "5">>,
           <<"1", "1", "\r", "-", "2", "5">>, <<"xa0", "1", "1", "-", "u2028", "2", "5", "\f">>,
           <<"x0b", "0", "1", "x1c", "-", "x85", "0", "0", "u3000">>,
           <<"1", "\r", "1", "-", "2", "5">>, <<"1", "e", "1", "-", "2", "5">> }

\* positive decimals as users write them, each with its value
Decimals ==
    { [text |-> <<"5">>, value |-> [num |-> 5, exp |-> 0]],
      [text |-> <<"1", "5", "0", "0">>, value |-> [num |-> 1500, exp |-> 0]],
      [text |-> <<"1", ".", "5">>, value |-> [num |-> 15, exp |-> 1]],
      [text |-> <<"1", ",", "5">>, value |-> [num |-> 15, exp |-> 1]],
      [text |-> <<"0", ".", "5", "0">>, value |-> [num |-> 5, exp |-> 1]],
      [text |-> <<"0", ",", "0", "1">>, value |-> [num |-> 1, exp |-> 2]] }

\* non-empty descriptions
Descriptions ==
    { <<"x">>, <<"x", " ", "y">>, <<"x", ",", " ", "y">>, T_otmena, C_Eda }

\* the line "a, d"
Line(a, d) == a \o <<",", " ">> \o d

AmountLines ==
    {Line(a.text, d) : a \in Decimals, d \in Descriptions}
    \cup { <<"5", ",", "x">>, <<"5", " ", "x">>, <<"0", ",", " ", "x">>, <<"-", "5", ",", " ", "x">>,
           <<"x", ",", " ", "x">>, <<"5", ",">>, <<",", "x">>, <<"5", ",", " ", " ">>,
           <<"5", ",", " ", "x", " ">>,
           T_otmena, <<" ", "CY_O", "cy_t", "cy_m", "cy_e", "cy_n", "cy_a", " ">>,
           T_cancel, T_slash_cancel, <<"C", "A", "N", "C", "E", "L">>,
           T_otmena \o <<",", " ", "x">>,
           <<"n", "a", "n", ",", " ", "x">>, <<"N", "a", "N", ",", " ", "x">>,
           <<"i", "n", "f", ",", " ", "x">>, <<"-", "i", "n", "f", ",", " ", "x">>,
           T_cancel \o <<"\r">>, <<"x0b", "/", "C", "a", "n", "c", "e", "l", "xa0">>,
           <<"CY_O", "CY_T", "CY_M", "CY_E", "CY_N", "CY_A", "u2029">>,
           <<"5", ",", " ", "\r">>, <<"5", ",", "\f", "x", "\r">>,
           <<"xa0", "5", "x1f", ",", "x85", "x">>, <<"5", "\r", "0", ",", " ", "x">>,
           <<"1", "e", "5", ",", " ", "x">>, <<"5", "e", "-", "1", ",", " ", "x">>,
           <<"1", "E", "2", ",", " ", "x">>, <<"0", "e", "0", ",", " ", "x">>,
           <<"1", ".", "5", "e", "3", ",", " ", "x">>, <<".", "5", "E", "+", "1", ",", " ", "x">>,
           <<"1", "_", "0", "e", "0", "_", "1", ",", " ", "x">>,
           <<"1", "e", "4", "0", "0", ",", " ", "x">>, <<"1", "e", "-", "4", "0", "0", ",", " ", "x">>,
           <<"1", "e", "1", "0", ",", " ", "x">>, <<"5", "e", "-", "3", ",", " ", "x">>,
           <<"1", "e", ",", " ", "x">>, <<"e", "5", ",", " ", "x">>, <<"1", "e", "+", ",", " ", "x">>,
           <<"1", "e", "5", "e", "1", ",", " ", "x">>, <<".", "e", "1", ",", " ", "x">> }

\* the category buttons, and texts that are none: the last two are taken by the
\* income dialog, which main() adds first
ButtonInputs ==
    { <<"em_food", " ">> \o C_Eda, <<"em_house", " ">> \o C_Dom,
      <<"em_bulb", " ">> \o C_Kommunalka, <<"em_game", " ">> \o C_Dosug,
      <<"em_box", " ">> \o C_NZ, C_Eda, <<" ">> \o C_NZ \o <<" ">>,
      C_Dom \o <<" ", "cy_i", " ">> \o C_Eda, <<"cy_d", "cy_a">>, <<"CY_N">>,
      Lower(C_Eda), T_Income, T_Income \o <<"\n">> }

ParseInputs == MonthInputs \cup AmountLines \cup ButtonInputs

InitParse ==
    /\ rev = "bot"
    /\ conv = [u \in {1} |-> Idle]
    /\ user_data = [u \in {1} |-> EmptyDict]
    /\ records = <<>>
    /\ now = StartInstant
    /\ zone = 0
    /\ msg = NoMsg
    /\ out = NoOut
    /\ arg \in ParseInputs
    /\ ret = NoRet
    /\ chat = <<>>

\* the helper named fn is applied to arg and returns val
Apply(fn, val) ==
    /\ ret' = [fn |-> fn, val |-> val]
    /\ UNCHANGED <<rev, conv, user_data, records, now, zone, msg, out, arg, chat>>

NextParse ==
    \/ Apply("parse_month_mm_yy", parse_month_mm_yy(arg))
    \/ Apply("parse_mm_yy", parse_mm_yy(arg))
    \/ Apply("parse_amount_and_text", parse_amount_and_text(arg))
    \/ Apply("is_cancel", is_cancel(arg))
    \/ Apply("extract_category", extract_category(arg))
    \/ Apply("extract_category_from_button", extract_category_from_button(arg))

SpecParse == InitParse /\ [][NextParse]_vars


(***************************************************************************)
(* The queries on their own: a table and a query (user, range) are drawn,  *)
(* and get_stats, get_records and the report functions are applied         *)
(***************************************************************************)
\* rows of the drawn tables
MaxLedger == 3

\* the bounds a range can have: the first instants of December 2025 and of January 2026
RangeStart == MonthStart(2025, 12)

RangeEnd == MonthStart(2026, 1)

\* the kinds of rows the dialogs insert, each with one amount
LedgerKinds ==
    { [type |-> "income", category |-> NoneText, amount |-> [num |-> 1000, exp |-> 0]],
      [type |-> "expense", category |-> C_Eda, amount |-> [num |-> 200, exp |-> 0]],
      [type |-> "expense", category |-> C_NZ, amount |-> [num |-> 50, exp |-> 0]] }

\* rows as add_record writes them, created at one of the two bounds
LedgerRecords ==
    { [user_id |-> u, type |-> k.type, category |-> k.category,
       amount |-> ToNumeric(k.amount), description |-> <<"x">>, created_at |-> t] :
      u \in AllUsers, k \in LedgerKinds, t \in {RangeStart, RangeEnd} }

Ledgers == UNION {[1..n -> LedgerRecords] : n \in 0..MaxLedger}

\* the arguments of a query
Queries ==
    [user_id : {1}, date_from : {NoneDate, RangeStart, RangeEnd},
     date_to : {NoneDate, RangeStart, RangeEnd}]

InitLedger ==
    /\ rev = "bot"
    /\ conv = [u \in {1} |-> Idle]
    /\ user_data = [u \in {1} |-> EmptyDict]
    /\ records \in Ledgers
    /\ now = StartInstant
    /\ zone = 0
    /\ msg = NoMsg
    /\ out = NoOut
    /\ arg \in Queries
    /\ ret = NoRet
    /\ chat = <<>>

\* get_stats(*arg)
QueryStats == get_stats(arg.user_id, arg.date_from, arg.date_to)

\* get_records(*arg)
QueryRecords == get_records(arg.user_id, arg.date_from, arg.date_to)

NextLedger ==
    \/ Apply("get_stats", QueryStats)
    \/ Apply("get_records", QueryRecords)
    \/ Apply("send_summary_stats",
             send_summary_stats(QueryStats.sums, QueryStats.categories, T_AllTime))
    \/ Apply("send_stats", send_stats(QueryStats.sums, QueryStats.categories, T_AllTime))
    \/ QueryRecords # <<>> /\ Apply("send_detailed_stats", send_detailed_stats(QueryRecords, T_AllTime))

SpecLedger == InitLedger /\ [][NextLedger]_vars


(***************************************************************************)
(* The statistics dialogs over a table filled earlier: user 1 asks for     *)
(* statistics, and sends nothing that starts another dialog                *)
(***************************************************************************)
\* a row as add_record wrote it at instant t
Row(u, type_, category, amount, t) ==
    [user_id |-> u, type |-> type_, category |-> category,
     amount |-> ToNumeric([num |-> amount, exp |-> 0]), description |-> <<"x">>,
     created_at |-> t]

\* tables: empty; rows of another user only; a row of November 2025 only; rows
\* of December 2025 with and without reserve and with another user's rows
StatsLedgers ==
    { <<>>,
      << Row(2, "income", NoneText, 1000, StartInstant), Row(2, "expense", C_NZ, 50, StartInstant) >>,
      << Row(1, "expense", C_Eda, 200, MonthStart(2025, 11)) >>,
      << Row(1, "income", NoneText, 1000, StartInstant), Row(1, "expense", C_Eda, 200, StartInstant),
         Row(1, "expense", C_NZ, 50, StartInstant) >>,
      << Row(1, "expense", C_NZ, 50, MonthStart(2025, 11)), Row(2, "expense", C_Eda, 200, StartInstant),
         Row(1, "expense", C_Dom, 200, StartInstant) >> }

StatsBotTexts ==
    { T_CurrentMonth, T_AllTime, T_ChooseMonth, <<"1", "2", "-", "2", "5">>,
      <<"1", "1", "-", "2", "5">>, T_Detailed, T_Summary }

StatsGSTexts ==
    { T_CurrentMonth, T_AllTime, T_ChooseMonth, <<"1", "2", "-", "2", "5">>,
      <<"1", "1", "-", "2", "5">> }

StatsBotMessages == {Command("stats"), Command("cancel")} \cup {Text(t) : t \in StatsBotTexts}

StatsGSMessages == {Command("stats"), Command("cancel")} \cup {Text(t) : t \in StatsGSTexts}

InitStats ==
    /\ rev \in {"bot", "gs"}
    /\ conv = [u \in {1} |-> Idle]
    /\ user_data = [u \in {1} |-> EmptyDict]
    /\ records \in StatsLedgers
    /\ now = StartInstant
    /\ zone \in Zones
    /\ msg = NoMsg
    /\ out = NoOut
    /\ arg = <<>>
    /\ ret = NoRet
    /\ chat = <<>>

\* main() of src/bot.py: the handlers these messages can reach
Bot_main_stats(u, m) ==
    \/ BotGets(u, m) /\ Enters(u, m, "stats_conv") /\ Reaches(u, m, "stats_conv") /\ Bot_stats_start(u, m)
    \/ BotGets(u, m) /\ InState(u, m, "stats_conv", "STATS_PERIOD") /\ Reaches(u, m, "stats_conv") /\ Bot_stats_period(u, m)
    \/ BotGets(u, m) /\ InState(u, m, "stats_conv", "STATS_CUSTOM_MONTH") /\ Reaches(u, m, "stats_conv") /\ Bot_stats_custom_month(u, m)
    \/ BotGets(u, m) /\ InState(u, m, "stats_conv", "STATS_DETAIL_LEVEL") /\ Reaches(u, m, "stats_conv") /\ stats_detail_level(u, m)
    \/ BotGets(u, m) /\ Fallback(u, m, "stats_conv") /\ Reaches(u, m, "stats_conv") /\ Bot_cancel(u, "stats_conv")
    \/ BotGets(u, m) /\ TakenByNone(u, m) /\ Unhandled(u, m)

\* main() of src/GainSpend.py: the handlers these messages can reach
GS_main_stats(u, m) ==
    \/ GSGets(u, m) /\ Enters(u, m, "stats_conv") /\ Reaches(u, m, "stats_conv") /\ GS_stats_start(u, m)
    \/ GSGets(u, m) /\ InState(u, m, "stats_conv", "STATS_PERIOD") /\ Reaches(u, m, "stats_conv") /\ GS_stats_period(u, m)
    \/ GSGets(u, m) /\ InState(u, m, "stats_conv", "STATS_CUSTOM_MONTH") /\ Reaches(u, m, "stats_conv") /\ GS_stats_custom_month(u, m)
    \/ GSGets(u, m) /\ Fallback(u, m, "stats_conv") /\ Reaches(u, m, "stats_conv") /\ GS_cancel(u, "stats_conv")
    \/ GSGets(u, m) /\ TakenByNone(u, m) /\ Unhandled(u, m)

NextStats ==
    \/ \E u \in AllUsers, m \in StatsBotMessages : Bot_main_stats(u, m)
    \/ \E u \in AllUsers, m \in StatsGSMessages : GS_main_stats(u, m)

SpecStats == InitStats /\ [][NextStats]_vars


(***************************************************************************)
(* Two users at once: in the 6-state revision each enters an expense and   *)
(* starts the all-time statistics, in the 7-state revision each enters an  *)
(* expense; their messages interleave in every order                       *)
(***************************************************************************)
PairBotTexts == { <<"em_food", " ">> \o C_Eda, <<"5", ",", " ", "x">>, T_AllTime }

PairGSTexts == { <<"em_box", " ">> \o C_NZ, <<"0", ",", "5">> }

PairBotMessages == {Command("expense"), Command("stats")} \cup {Text(t) : t \in PairBotTexts}

PairGSMessages == {Command("expense")} \cup {Text(t) : t \in PairGSTexts}

InitPair ==
    /\ rev \in {"bot", "gs"}
    /\ conv = [u \in AllUsers |-> Idle]
    /\ user_data = [u \in AllUsers |-> EmptyDict]
    /\ records = <<>>
    /\ now = StartInstant
    /\ zone = 0
    /\ msg = NoMsg
    /\ out = NoOut
    /\ arg = <<>>
    /\ ret = NoRet
    /\ chat = <<>>

\* main() of src/bot.py: the handlers these messages can reach
Bot_main_pair(u, m) ==
    \/ BotGets(u, m) /\ Enters(u, m, "expense_conv") /\ Reaches(u, m, "expense_conv") /\ Bot_expense_start(u, m)
    \/ BotGets(u, m) /\ InState(u, m, "expense_conv", "EXPENSE_CATEGORY") /\ Reaches(u, m, "expense_conv") /\ Bot_expense_category(u, m)
    \/ BotGets(u, m) /\ InState(u, m, "expense_conv", "EXPENSE_LINE") /\ Reaches(u, m, "expense_conv") /\ expense_line(u, m)
    \/ BotGets(u, m) /\ Enters(u, m, "stats_conv") /\ Reaches(u, m, "stats_conv") /\ Bot_stats_start(u, m)
    \/ BotGets(u, m) /\ InState(u, m, "stats_conv", "STATS_PERIOD") /\ Reaches(u, m, "stats_conv") /\ Bot_stats_period(u, m)
    \/ BotGets(u, m) /\ InState(u, m, "stats_conv", "STATS_DETAIL_LEVEL") /\ Reaches(u, m, "stats_conv") /\ stats_detail_level(u, m)
    \/ BotGets(u, m) /\ TakenByNone(u, m) /\ Unhandled(u, m)

\* main() of src/GainSpend.py: the handlers these messages can reach
GS_main_pair(u, m) ==
    \/ GSGets(u, m) /\ Enters(u, m, "expense_conv") /\ Reaches(u, m, "expense_conv") /\ GS_expense_start(u, m)
    \/ GSGets(u, m) /\ InState(u, m, "expense_conv", "EXPENSE_CATEGORY") /\ Reaches(u, m, "expense_conv") /\ GS_expense_category(u, m)
    \/ GSGets(u, m) /\ InState(u, m, "expense_conv", "EXPENSE_AMOUNT") /\ Reaches(u, m, "expense_conv") /\ expense_amount(u, m)
    \/ GSGets(u, m) /\ InState(u, m, "expense_conv", "EXPENSE_DESC") /\ Reaches(u, m, "expense_conv") /\ expense_desc(u, m)
    \/ GSGets(u, m) /\ TakenByNone(u, m) /\ Unhandled(u, m)

NextPair ==
    \/ \E u \in AllUsers, m \in PairBotMessages : Bot_main_pair(u, m)
    \/ \E u \in AllUsers, m \in PairGSMessages : GS_main_pair(u, m)

SpecPair == InitPair /\ [][NextPair]_vars


(***************************************************************************)
(* Two users who ask for statistics again and again: each can enter an     *)
(* income, cancel, and ask for the all-time report or the report of        *)
(* November 2025; the report each was sent last stays in the chat          *)
(***************************************************************************)
\* the table: rows of user 2 of November and December 2025, so that the two
\* periods give user 2 different figures and user 1 can still enter a row
AgainLedgers ==
    { << Row(2, "income", NoneText, 1000, MonthStart(2025, 11)),
         Row(2, "expense", C_NZ, 50, StartInstant) >> }

\* the texts of a user who asks for statistics: of all time or of November 2025
AskTexts == { T_AllTime, T_ChooseMonth, <<"1", "1", "-", "2", "5">>, T_Summary }

AgainBotTexts == AskTexts \cup { <<"5", ",", " ", "x">> }

AgainGSTexts == (AskTexts \ {T_Summary}) \cup { <<"0", ",", "5">> }

AgainBotMessages ==
    {Command("income"), Command("stats"), Command("cancel")} \cup {Text(t) : t \in AgainBotTexts}

AgainGSMessages ==
    {Command("income"), Command("stats"), Command("cancel")} \cup {Text(t) : t \in AgainGSTexts}

\* user 1 enters an income, cancels and asks for the statistics of all time;
\* user 2 only asks for statistics, of both periods
Asks(u, m) ==
    IF u = 1 THEN m.text \notin {T_ChooseMonth, <<"1", "1", "-", "2", "5">>}
    ELSE m.command = "stats" \/ m.text \in AskTexts

InitAgain ==
    /\ rev \in {"bot", "gs"}
    /\ conv = [u \in AllUsers |-> Idle]
    /\ user_data = [u \in AllUsers |-> EmptyDict]
    /\ records \in AgainLedgers
    /\ now = StartInstant
    /\ zone = 0
    /\ msg = NoMsg
    /\ out = NoOut
    /\ arg = <<>>
    /\ ret = NoRet
    /\ chat = NoChat(AllUsers)

\* main() of src/bot.py: the handlers these messages can reach
Bot_main_again(u, m) ==
    \/ BotGets(u, m) /\ Asks(u, m) /\ Enters(u, m, "income_conv") /\ Reaches(u, m, "income_conv") /\ Bot_income_start(u, m)
    \/ BotGets(u, m) /\ Asks(u, m) /\ InState(u, m, "income_conv", "INCOME_LINE") /\ Reaches(u, m, "income_conv") /\ income_line(u, m)
    \/ BotGets(u, m) /\ Asks(u, m) /\ Enters(u, m, "stats_conv") /\ Reaches(u, m, "stats_conv") /\ Bot_stats_start(u, m)
    \/ BotGets(u, m) /\ Asks(u, m) /\ InState(u, m, "stats_conv", "STATS_PERIOD") /\ Reaches(u, m, "stats_conv") /\ Bot_stats_period(u, m)
    \/ BotGets(u, m) /\ Asks(u, m) /\ InState(u, m, "stats_conv", "STATS_CUSTOM_MONTH") /\ Reaches(u, m, "stats_conv") /\ Bot_stats_custom_month(u, m)
    \/ BotGets(u, m) /\ Asks(u, m) /\ InState(u, m, "stats_conv", "STATS_DETAIL_LEVEL") /\ Reaches(u, m, "stats_conv") /\ stats_detail_level(u, m)
    \/ BotGets(u, m) /\ Asks(u, m) /\ Fallback(u, m, "income_conv") /\ Reaches(u, m, "income_conv") /\ Bot_cancel(u, "income_conv")
    \/ BotGets(u, m) /\ Asks(u, m) /\ Fallback(u, m, "stats_conv") /\ Reaches(u, m, "stats_conv") /\ Bot_cancel(u, "stats_conv")
    \/ BotGets(u, m) /\ Asks(u, m) /\ TakenByNone(u, m) /\ Unhandled(u, m)

\* main() of src/GainSpend.py: the handlers these messages can reach
GS_main_again(u, m) ==
    \/ GSGets(u, m) /\ Asks(u, m) /\ Enters(u, m, "income_conv") /\ Reaches(u, m, "income_conv") /\ GS_income_start(u, m)
    \/ GSGets(u, m) /\ Asks(u, m) /\ InState(u, m, "income_conv", "INCOME_AMOUNT") /\ Reaches(u, m, "income_conv") /\ income_amount(u, m)
    \/ GSGets(u, m) /\ Asks(u, m) /\ InState(u, m, "income_conv", "INCOME_DESC") /\ Reaches(u, m, "income_conv") /\ income_desc(u, m)
    \/ GSGets(u, m) /\ Asks(u, m) /\ Enters(u, m, "stats_conv") /\ Reaches(u, m, "stats_conv") /\ GS_stats_start(u, m)
    \/ GSGets(u, m) /\ Asks(u, m) /\ InState(u, m, "stats_conv", "STATS_PERIOD") /\ Reaches(u, m, "stats_conv") /\ GS_stats_period(u, m)
    \/ GSGets(u, m) /\ Asks(u, m) /\ InState(u, m, "stats_conv", "STATS_CUSTOM_MONTH") /\ Reaches(u, m, "stats_conv") /\ GS_stats_custom_month(u, m)
    \/ GSGets(u, m) /\ Asks(u, m) /\ Fallback(u, m, "income_conv") /\ Reaches(u, m, "income_conv") /\ GS_cancel(u, "income_conv")
    \/ GSGets(u, m) /\ Asks(u, m) /\ Fallback(u, m, "stats_conv") /\ Reaches(u, m, "stats_conv") /\ GS_cancel(u, "stats_conv")
    \/ GSGets(u, m) /\ Asks(u, m) /\ TakenByNone(u, m) /\ Unhandled(u, m)

NextAgain ==
    \/ \E u \in AllUsers, m \in AgainBotMessages : Bot_main_again(u, m)
    \/ \E u \in AllUsers, m \in AgainGSMessages : GS_main_again(u, m)

SpecAgain == InitAgain /\ [][NextAgain]_vars


(***************************************************************************)
(* The category step on its own: a text is drawn, both extraction helpers  *)
(* are applied to it, and user 1 sends it as the answer to /expense        *)
(***************************************************************************)
InitCategory ==
    /\ rev \in {"bot", "gs"}
    /\ conv = [u \in {1} |-> Idle]
    /\ user_data = [u \in {1} |-> EmptyDict]
    /\ records = <<>>
    /\ now = StartInstant
    /\ zone = 0
    /\ msg = NoMsg
    /\ out = NoOut
    /\ arg \in ButtonInputs
    /\ ret = NoRet
    /\ chat = <<>>

\* main() over the messages /expense and the text drawn: the handlers they
\* reach in every state these two messages lead to (no text drawn is a line or
\* an amount that gets as far as an insert or a description)
NextCategory ==
    \/ Apply("extract_category", extract_category(arg))
    \/ Apply("extract_category_from_button", extract_category_from_button(arg))
    \/ BotGets(1, Command("expense")) /\ Enters(1, Command("expense"), "expense_conv") /\ Reaches(1, Command("expense"), "expense_conv") /\ Bot_expense_start(1, Command("expense"))
    \/ BotGets(1, Text(arg)) /\ Enters(1, Text(arg), "income_conv") /\ Reaches(1, Text(arg), "income_conv") /\ Bot_income_start(1, Text(arg))
    \/ BotGets(1, Text(arg)) /\ InState(1, Text(arg), "income_conv", "INCOME_LINE") /\ Reaches(1, Text(arg), "income_conv") /\ income_line(1, Text(arg))
    \/ BotGets(1, Text(arg)) /\ InState(1, Text(arg), "expense_conv", "EXPENSE_CATEGORY") /\ Reaches(1, Text(arg), "expense_conv") /\ Bot_expense_category(1, Text(arg))
    \/ BotGets(1, Text(arg)) /\ InState(1, Text(arg), "expense_conv", "EXPENSE_LINE") /\ Reaches(1, Text(arg), "expense_conv") /\ expense_line(1, Text(arg))
    \/ BotGets(1, Command("expense")) /\ TakenByNone(1, Command("expense")) /\ Unhandled(1, Command("expense"))
    \/ BotGets(1, Text(arg)) /\ TakenByNone(1, Text(arg)) /\ Unhandled(1, Text(arg))
    \/ GSGets(1, Command("expense")) /\ Enters(1, Command("expense"), "expense_conv") /\ Reaches(1, Command("expense"), "expense_conv") /\ GS_expense_start(1, Command("expense"))
    \/ GSGets(1, Text(arg)) /\ Enters(1, Text(arg), "income_conv") /\ Reaches(1, Text(arg), "income_conv") /\ GS_income_start(1, Text(arg))
    \/ GSGets(1, Text(arg)) /\ InState(1, Text(arg), "income_conv", "INCOME_AMOUNT") /\ Reaches(1, Text(arg), "income_conv") /\ income_amount(1, Text(arg))
    \/ GSGets(1, Text(arg)) /\ InState(1, Text(arg), "expense_conv", "EXPENSE_CATEGORY") /\ Reaches(1, Text(arg), "expense_conv") /\ GS_expense_category(1, Text(arg))
    \/ GSGets(1, Text(arg)) /\ InState(1, Text(arg), "expense_conv", "EXPENSE_AMOUNT") /\ Reaches(1, Text(arg), "expense_conv") /\ expense_amount(1, Text(arg))
    \/ GSGets(1, Command("expense")) /\ TakenByNone(1, Command("expense")) /\ Unhandled(1, Command("expense"))
    \/ GSGets(1, Text(arg)) /\ TakenByNone(1, Text(arg)) /\ Unhandled(1, Text(arg))

SpecCategory == InitCategory /\ [][NextCategory]_vars


(***************************************************************************)
(* Vocabulary of the properties                                            *)
(***************************************************************************)
Dialogs == {"income_conv", "expense_conv", "stats_conv"}

\* the replies that tell the user a dialog was cancelled
Cancelled == {"income_cancelled", "expense_cancelled", "cancelled"}

\* the replies that end a dialog with its result: a saved record or a report
Completed == {"income_saved", "expense_saved", "summary", "detailed", "no_records", "stats"}

\* the replies that ask the user to correct the input
Corrective ==
    { "income_format", "income_bad_amount", "income_no_source",
      "expense_format", "expense_bad_amount", "expense_no_target",
      "bad_amount", "choose_category", "choose_period", "bad_month", "choose_detail" }

\* the keys of user_data a dialog uses as scratch
ScratchKeys(d) ==
    CASE d = "income_conv" -> {"income_amount"}
      [] d = "expense_conv" -> {"expense_amount", "expense_category"}
      [] d = "stats_conv" -> {"stats_range"}

\* the dialogs of user u that are in a non-idle state
Active(u) == {d \in Dialogs : conv[u][d] # END}

(***************************************************************************)
(* C1: a cancellation persists nothing and leaves the user idle            *)
(***************************************************************************)
\* C1: whenever a message is handled as a cancellation (the reply says so), the
\* step adds no record and afterwards no dialog of that user is in a non-idle state.
C1_CancelLeavesIdle ==
    [][out'.reply \in Cancelled =>
          /\ records' = records
          /\ \A d \in Dialogs : conv'[out'.user][d] = END]_vars

(***************************************************************************)
(* C2: every stored amount is positive                                     *)
(***************************************************************************)
\* C2: every record of the ledger has a stored amount (in hundredths) > 0.
C2_AmountsPositive == \A i \in 1..Len(records) : records[i].amount > 0

(***************************************************************************)
(* C3: a record has a category iff it is an expense                        *)
(***************************************************************************)
\* C3: every record has a non-null category if and only if its kind is expense,
\* and a non-null category is one of the five fixed categories.
C3_CategoryIffExpense ==
    \A i \in 1..Len(records) :
        /\ records[i].type \in {"income", "expense"}
        /\ (records[i].category # NoneText) <=> (records[i].type = "expense")
        /\ records[i].category # NoneText =>
               \E k \in 1..Len(EXPENSE_CATEGORIES) : records[i].category = EXPENSE_CATEGORIES[k]

(***************************************************************************)
(* C4: one active dialog per user                                          *)
(***************************************************************************)
\* C4: at most one of a user's income, expense and statistics dialogs is in a
\* non-idle state.
C4_OneActiveDialog == \A u \in Users : Cardinality(Active(u)) <= 1


(***************************************************************************)
(* C5: invalid input re-enters the state                                   *)
(***************************************************************************)
\* the text t fails the validation of state s in revision r (the description
\* states of the 7-state revision validate nothing)
InvalidInput(r, s, t) ==
    CASE s \in {"INCOME_LINE", "EXPENSE_LINE"} ->
            parse_amount_and_text(t).err \in {"format", "amount", "desc"}
      [] s \in {"INCOME_AMOUNT", "EXPENSE_AMOUNT"} ->
            LET a == PyFloat(Strip(Replace(t, ",", "."))) IN ~a.ok \/ NonPositive(a)
      [] s = "EXPENSE_CATEGORY" ->
            IF r = "bot" THEN extract_category(t) = NoneText
            ELSE extract_category_from_button(Strip(t)) = NoneText
      [] s = "STATS_PERIOD" -> Strip(t) \notin {T_CurrentMonth, T_AllTime, T_ChooseMonth}
      [] s = "STATS_CUSTOM_MONTH" ->
            IF r = "bot" THEN ~parse_month_mm_yy(Strip(t)).ok ELSE ~parse_mm_yy(Strip(t)).ok
      [] s = "STATS_DETAIL_LEVEL" -> Strip(t) \notin {T_Detailed, T_Summary}
      [] OTHER -> FALSE

\* C5: a text that fails the validation of the non-idle state that handles it
\* leaves the dialog in that state and adds no record, and the handler answers
\* it with a corrective reply (the one call it makes is reply_text with that
\* text; when the call raises nothing is sent and the state stays as well);
\* and a dialog leaves a non-idle state for idle only in a step that handles a
\* message of that dialog and replies with a completion or a cancellation.
C5_InvalidInputStays ==
    [][\A u \in Users : \A d \in Dialogs :
          /\ ( /\ out'.user = u /\ out'.conv = d
               /\ conv[u][d] # END
               /\ IsText(msg')
               /\ InvalidInput(rev, conv[u][d], msg'.text) )
             => ( /\ conv'[u][d] = conv[u][d]
                  /\ records' = records
                  /\ (out'.reply \in Corrective \/ ReplyFailed(out')) )
          /\ (conv[u][d] # END /\ conv'[u][d] = END)
             => ( /\ out'.user = u /\ out'.conv = d
                  /\ out'.reply \in Completed \cup Cancelled )]_vars

\* C5 witness: a text that is no month was refused in the month state, which
\* the user is still in, while a record is already in the ledger
C5_Witness ==
    /\ msg = Text(T_Summary)
    /\ out.reply = "bad_month"
    /\ out.handler = "stats_custom_month"
    /\ conv[out.user]["stats_conv"] = "STATS_CUSTOM_MONTH"
    /\ Len(records) = 1

(***************************************************************************)
(* C6: the cancel keyword cancels in every state                           *)
(***************************************************************************)
\* C6: a text equal to the cancel keyword (trimmed, case-insensitively) that a
\* dialog receives in a non-idle state ends that dialog and adds no record.
C6_KeywordCancelsEverywhere ==
    [][\A u \in Users : \A d \in Dialogs :
          ( /\ out'.user = u /\ out'.conv = d
            /\ conv[u][d] # END
            /\ IsText(msg')
            /\ Lower(Strip(msg'.text)) = T_otmena )
          => (conv'[u][d] = END /\ records' = records)]_vars

(***************************************************************************)
(* C7, C8: the scratch entries of a dialog that ended                      *)
(***************************************************************************)
\* C7: after a dialog is cancelled, the user's user_data holds none of that
\* dialog's scratch entries (pending amount, category, date range).
C7_CancelClearsScratch ==
    out.reply \in Cancelled =>
        ScratchKeys(out.conv) \cap DOMAIN user_data[out.user] = {}

\* C8: after a dialog completes (record saved or report sent), the user's
\* user_data holds none of that dialog's scratch entries, and the user_data of a
\* user whose dialogs all completed is empty.
C8_CompletionClearsScratch ==
    out.reply \in Completed =>
        /\ ScratchKeys(out.conv) \cap DOMAIN user_data[out.user] = {}
        /\ Active(out.user) = {} => DOMAIN user_data[out.user] = {}


(***************************************************************************)
(* C9: parse_amount_and_text on the line "a, d"                            *)
(***************************************************************************)
\* C9: for every positive decimal a (period or comma as decimal separator) and
\* every non-empty d, parse_amount_and_text("a, d") returns exactly (a, d).
C9_ParsesAmountAndText ==
    ret.fn = "parse_amount_and_text" =>
        \A a \in Decimals, d \in Descriptions :
            arg = Line(a.text, d) =>
                /\ ret.val.err = "ok"
                /\ SameAmount(ret.val.amount, a.value)
                /\ ret.val.description = d

(***************************************************************************)
(* C10: the month parsers                                                  *)
(***************************************************************************)
\* f is an integer as int() reads one: white space (the separators
\* U+001C..U+001F are none to int()) around an optional sign and digits
\* (single underscores allowed between digits)
IntField(f) ==
    \E i \in 1..Len(f) : \E j \in i..Len(f) :
        /\ \A k \in 1..(i - 1) : f[k] \in NumberSpace
        /\ \A k \in (j + 1)..Len(f) : f[k] \in NumberSpace
        /\ LET first == IF f[i] \in {"+", "-"} THEN i + 1 ELSE i
           IN  /\ first <= j
               /\ IsDigit(f[first]) /\ IsDigit(f[j])
               /\ \A k \in first..j : IsDigit(f[k]) \/ (f[k] = "_" /\ IsDigit(f[k + 1]))

\* the digits of f, in order
RECURSIVE OnlyDigits(_)
OnlyDigits(f) ==
    IF f = <<>> THEN <<>>
    ELSE (IF IsDigit(Head(f)) THEN <<Head(f)>> ELSE <<>>) \o OnlyDigits(Tail(f))

\* the value of an integer field that has no minus sign
FieldVal(f) ==
    LET d == OnlyDigits(f)
    IN  SumSeq([i \in 1..Len(d) |-> DigitVal(d[i]) * Pow10(Len(d) - i)])

\* s is MM-YY: exactly one hyphen, an integer on each side, the month in 1..12
IsMMYY(s) ==
    \E h \in 1..Len(s) :
        /\ s[h] = "-"
        /\ \A k \in 1..Len(s) : s[k] = "-" => k = h
        /\ IntField(SubSeq(s, 1, h - 1))
        /\ IntField(SubSeq(s, h + 1, Len(s)))
        /\ FieldVal(SubSeq(s, 1, h - 1)) \in 1..12

\* C10: both month parsers return (year = 2000 + YY, month = MM) exactly when
\* the input is two hyphen-separated integer fields MM-YY with 1 <= MM <= 12,
\* and fail on every other input; "11-25" gives (2025, 11), "13-25" and "11" fail.
C10_MonthParsers ==
    ret.fn \in {"parse_month_mm_yy", "parse_mm_yy"} =>
        /\ IF IsMMYY(arg)
           THEN LET h == CHOOSE k \in 1..Len(arg) : arg[k] = "-"
                IN  /\ ret.val.ok
                    /\ ret.val.month = FieldVal(SubSeq(arg, 1, h - 1))
                    /\ ret.val.year = 2000 + FieldVal(SubSeq(arg, h + 1, Len(arg)))
           ELSE ~ret.val.ok
        /\ arg = <<"1", "1", "-", "2", "5">> =>
               ret.val = [ok |-> TRUE, year |-> 2025, month |-> 11]
        /\ arg \in { <<"1", "3", "-", "2", "5">>, <<"1", "1">> } => ~ret.val.ok

\* C10 witness: parse_month_mm_yy read "11-25"
C10_Witness ==
    /\ ret.fn = "parse_month_mm_yy"
    /\ arg = <<"1", "1", "-", "2", "5">>
    /\ ret.val.ok

(***************************************************************************)
(* C11: the totals of get_stats and the balance and reserve of the reports *)
(***************************************************************************)
\* the rows of kind k the query arg selects, by their position in the table
KindIndices(k) ==
    {i \in 1..Len(records) :
        /\ Selected(records[i], arg.user_id, arg.date_from, arg.date_to)
        /\ records[i].type = k}

\* the expense rows of category c the query arg selects
CategoryIndices(c) == {i \in KindIndices("expense") : records[i].category = c}

\* the total amount of the rows at the positions I
RECURSIVE TotalAmount(_)
TotalAmount(I) ==
    IF I = {} THEN 0
    ELSE LET i == CHOOSE x \in I : TRUE
         IN  records[i].amount + TotalAmount(I \ {i})

\* income 1000, expense 200 in Еда, expense 50 in НЗ, all of user 1
ExampleLedger ==
    << [user_id |-> 1, type |-> "income", category |-> NoneText, amount |-> 100000,
        description |-> <<"x">>, created_at |-> RangeStart],
       [user_id |-> 1, type |-> "expense", category |-> C_Eda, amount |-> 20000,
        description |-> <<"x">>, created_at |-> RangeStart],
       [user_id |-> 1, type |-> "expense", category |-> C_NZ, amount |-> 5000,
        description |-> <<"x">>, created_at |-> RangeStart] >>

\* the query arg has no bound
AllTimeQuery == arg.date_from = NoneDate /\ arg.date_to = NoneDate

\* C11: get_stats returns, for each kind, the total amount of the selected rows
\* of that kind, and for each category the total of the selected expense rows of
\* that category (no entry where nothing is selected); both reports show as
\* balance income minus expense, the reserve included in the expense, and as
\* reserve the total of category НЗ, 0 when absent.  For the table {income 1000,
\* expense 200 Еда, expense 50 НЗ}: sums 1000 and 250, categories 200 and 50,
\* balance 750, reserve 50.
C11_StatsTotals ==
    /\ ret.fn = "get_stats" =>
          /\ DOMAIN ret.val.sums = {k \in {"income", "expense"} : KindIndices(k) # {}}
          /\ \A k \in DOMAIN ret.val.sums : ret.val.sums[k] = TotalAmount(KindIndices(k))
          /\ DOMAIN ret.val.categories = {records[i].category : i \in KindIndices("expense")}
          /\ \A c \in DOMAIN ret.val.categories :
                ret.val.categories[c] = TotalAmount(CategoryIndices(c))
          /\ (records = ExampleLedger /\ AllTimeQuery) =>
                /\ ret.val.sums = [k \in {"income", "expense"} |->
                                      IF k = "income" THEN 100000 ELSE 25000]
                /\ ret.val.categories = [c \in {C_Eda, C_NZ} |->
                                            IF c = C_Eda THEN 20000 ELSE 5000]
    /\ ret.fn = "send_summary_stats" =>
          /\ ret.val.on_hands = TotalAmount(KindIndices("income")) - TotalAmount(KindIndices("expense"))
          /\ ret.val.nz_amount = TotalAmount(CategoryIndices(C_NZ))
          /\ (records = ExampleLedger /\ AllTimeQuery) =>
                ret.val.on_hands = 75000 /\ ret.val.nz_amount = 5000
    /\ ret.fn = "send_stats" =>
          /\ ret.val.balance = TotalAmount(KindIndices("income")) - TotalAmount(KindIndices("expense"))
          /\ ret.val.nz = TotalAmount(CategoryIndices(C_NZ))
          /\ (records = ExampleLedger /\ AllTimeQuery) =>
                ret.val.balance = 75000 /\ ret.val.nz = 5000

\* the summary report of the 6-state revision over the example table: 750 on hand, 50 in reserve
C11_Witness ==
    /\ ret.fn = "send_summary_stats"
    /\ records = ExampleLedger
    /\ AllTimeQuery
    /\ ret.val.income = 100000
    /\ ret.val.expense = 25000
    /\ ret.val.on_hands = 75000
    /\ ret.val.nz_amount = 5000

(***************************************************************************)
(* C12: which rows a query selects                                         *)
(***************************************************************************)
\* row r is of the querying user and inside the half-open range of the query arg
InRange(r) ==
    /\ r.user_id = arg.user_id
    /\ arg.date_from = NoneDate \/ r.created_at >= arg.date_from
    /\ arg.date_to = NoneDate \/ r.created_at < arg.date_to

\* the columns get_records returns of row r
RowOf(r) ==
    [type |-> r.type, category |-> r.category, amount |-> r.amount,
     description |-> r.description, created_at |-> r.created_at]

\* the positions of the rows in range
RangeIndices == {i \in 1..Len(records) : InRange(records[i])}

\* C12: get_records returns the rows in range and no others, each as often as
\* the table holds it, and get_stats sums the rows in range and no others: a row
\* is in range iff its user_id is the querying user's, and created_at >= date_from
\* unless date_from is absent, and created_at < date_to unless date_to is absent.
C12_SelectsRange ==
    /\ ret.fn = "get_records" =>
          /\ Len(ret.val) = Cardinality(RangeIndices)
          /\ \A i \in RangeIndices :
                Cardinality({j \in 1..Len(ret.val) : ret.val[j] = RowOf(records[i])})
                  = Cardinality({j \in RangeIndices : RowOf(records[j]) = RowOf(records[i])})
    /\ ret.fn = "get_stats" =>
          \A k \in {"income", "expense"} :
              GetSum(ret.val.sums, k) = TotalAmount({i \in RangeIndices : records[i].type = k})

\* a query for December 2025 over a table with a row of the user at the lower
\* bound, one at the upper bound and one of another user: one row is returned
C12_Witness ==
    /\ ret.fn = "get_records"
    /\ arg.date_from = RangeStart
    /\ arg.date_to = RangeEnd
    /\ \E i \in 1..Len(records) : records[i].user_id = 1 /\ records[i].created_at = RangeStart
    /\ \E i \in 1..Len(records) : records[i].user_id = 1 /\ records[i].created_at = RangeEnd
    /\ \E i \in 1..Len(records) : records[i].user_id = 2 /\ records[i].created_at = RangeStart
    /\ Len(ret.val) = 1
    /\ ret.val[1].created_at = RangeStart

(***************************************************************************)
(* C13: statistics over a range without records                            *)
(***************************************************************************)
\* the range a report labelled label is about: all time, a month picked, or
\* the current month, which is the month of the local date last read
PeriodOf(label) ==
    IF label = T_AllTime THEN <<NoneDate, NoneDate>>
    ELSE IF label = MonthLabel(2025, 11) THEN <<MonthStart(2025, 11), RangeStart>>
    ELSE IF label = MonthLabel(2025, 12) THEN <<RangeStart, RangeEnd>>
    ELSE <<get_current_month_range(now + zone).date_from,
           get_current_month_range(now + zone).date_to>>

\* the table holds no row of user u in the range of the report labelled label
NoneInPeriod(u, label) ==
    \A i \in 1..Len(records) :
        ~ /\ records[i].user_id = u
          /\ PeriodOf(label)[1] = NoneDate \/ records[i].created_at >= PeriodOf(label)[1]
          /\ PeriodOf(label)[2] = NoneDate \/ records[i].created_at < PeriodOf(label)[2]

\* C13: a report over a range that holds no record of the user ends the
\* statistics dialog; the summary of either revision shows income, expense,
\* balance and reserve all 0, and a detailed view is answered with the
\* "no records in this period" message, never with a list.
C13_EmptyRangeReport ==
    /\ (out.reply \in Reports /\ NoneInPeriod(out.user, out.body.label)) =>
          /\ conv[out.user]["stats_conv"] = END
          /\ out.reply = "summary" =>
                /\ out.body.income = 0 /\ out.body.expense = 0
                /\ out.body.on_hands = 0 /\ out.body.nz_amount = 0
          /\ out.reply = "stats" =>
                /\ out.body.income = 0 /\ out.body.expense = 0
                /\ out.body.balance = 0 /\ out.body.nz = 0
          /\ out.reply # "detailed"
    /\ ( /\ out.handler = "stats_detail_level"
         /\ Strip(msg.text) = T_Detailed
         /\ out.reply # ""
         /\ "stats_range" \in DOMAIN user_data[out.user]
         /\ NoneInPeriod(out.user, user_data[out.user]["stats_range"][3]) )
       => out.reply = "no_records"

\* a detailed view asked over a table that holds rows, none of them of the
\* user in the range, was answered with the "no records" message
C13_Witness ==
    /\ out.reply = "no_records"
    /\ records # <<>>
    /\ NoneInPeriod(out.user, out.body.label)
    /\ conv[out.user]["stats_conv"] = END

(***************************************************************************)
(* C14: statistics queries are idempotent                                  *)
(***************************************************************************)
\* C14: a step of a statistics dialog never changes the table; and when a user
\* is sent a report of the kind and period of the report the user was sent
\* before, with no row inserted between the two (steps of other dialogs,
\* cancellations and the reports of the other user may lie between), the second
\* report shows what the first showed: the same sums and the same category
\* totals. The periods asked for here, all time and a month picked, are told
\* by their labels.
C14_StatsIdempotent ==
    [][ /\ out'.conv = "stats_conv" => records' = records
        /\ \A u \in DOMAIN chat.sent :
              ( /\ out'.user = u
                /\ out'.reply \in Reports
                /\ chat.sent[u].reply = out'.reply
                /\ chat.sent[u].body.label = out'.body.label )
              => out'.body = chat.sent[u].body ]_vars

\* a user with rows was sent the report of a period a second time, with figures
\* above zero, and the other user was sent a report between the two
C14_Witness ==
    /\ out.reply \in {"summary", "stats"}
    /\ chat.last = out.user
    /\ chat.turn = "amid"
    /\ out.body.income + out.body.expense > 0

(***************************************************************************)
(* C15: a failed insert can be retried                                     *)
(***************************************************************************)
\* the handlers that end an entry dialog with the insert
InsertHandlers == {"income_line", "expense_line", "income_desc", "expense_desc"}

\* handling the last message stopped at a statement of the store that raised
StoreFailed(o) == o.reply = "" /\ o.body = <<"psycopg.Error">>

\* the row the message m of user u is to persist, given the user's scratch ud:
\* the amount and text of the line in the 6-state revision, the stored amount and
\* the text in the 7-state revision, the stored category for an expense
EnteredRow(u, m, ud, handler) ==
    [user_id |-> u,
     type |-> IF handler \in {"income_line", "income_desc"} THEN "income" ELSE "expense",
     category |-> IF handler \in {"income_line", "income_desc"} THEN NoneText
                  ELSE Get(ud, "expense_category", NoneText),
     amount |-> CASE handler \in {"income_line", "expense_line"} ->
                       ToNumeric(parse_amount_and_text(m.text).amount)
                  [] handler = "income_desc" -> ToNumeric(ud["income_amount"])
                  [] handler = "expense_desc" -> ToNumeric(ud["expense_amount"]),
     description |-> IF handler \in {"income_line", "expense_line"}
                     THEN parse_amount_and_text(m.text).description
                     ELSE Strip(m.text),
     created_at |-> now']

\* C15: a step in which the insert that ends an entry dialog fails adds no
\* record and leaves every dialog state and every scratch entry as they were;
\* and when the same message is sent again and the insert succeeds, the table
\* gains exactly one record, with the values entered before the failure.
C15_FailedInsertRetries ==
    [][ /\ (StoreFailed(out') /\ out'.handler \in InsertHandlers) =>
              /\ records' = records
              /\ conv' = conv
              /\ user_data' = user_data
        /\ ( /\ StoreFailed(out) /\ out.handler \in InsertHandlers
             /\ msg' = msg /\ out'.user = out.user
             /\ out'.reply \in {"income_saved", "expense_saved"} ) =>
              /\ out'.handler = out.handler
              /\ records' = Append(records, EnteredRow(out.user, msg, user_data[out.user], out.handler)) ]_vars

\* the insert of expense_line failed: the dialog still waits for the line, the
\* category is still stored and the table is empty
C15_Witness ==
    /\ StoreFailed(out)
    /\ out.handler = "expense_line"
    /\ conv[out.user]["expense_conv"] = "EXPENSE_LINE"
    /\ "expense_category" \in DOMAIN user_data[out.user]
    /\ records = <<>>

(***************************************************************************)
(* C16: a failure of the store is reported to the user                     *)
(***************************************************************************)
\* C16: whenever a statement of the store (the insert of add_record, a query of
\* get_stats or get_records) fails while a message is handled, the user who sent
\* the message is sent a reply: no message that met such a failure is left
\* without an answer.
C16_FailureReported == out.reply = "" => out.body # <<"psycopg.Error">>

(***************************************************************************)
(* C17: the reserve is reported apart from the other categories            *)
(***************************************************************************)
\* C17: in every statistics report (the summaries of both revisions and the
\* detailed view of the 6-state revision) the reserve category НЗ is never an
\* entry of the section that lists the expense categories; it has a section
\* of its own.
C17_ReserveApart ==
    /\ out.reply = "stats" =>
          /\ C_NZ \notin DOMAIN out.body.by_category
          /\ out.body.show_nz = (out.body.nz # 0)
    /\ out.reply = "detailed" =>
          \A i \in 1..Len(out.body.expenses_by_cat) :
              out.body.expenses_by_cat[i].category # C_NZ

(***************************************************************************)
(* C18: the order of the rows of get_records                               *)
(***************************************************************************)
\* row a comes strictly before row b in the order "all income before all
\* expense, then category ascending with null as the empty text, then
\* creation time ascending"
IncomeFirstBefore(a, b) ==
    LET Kind(r) == IF r.type = "income" THEN 0 ELSE 1
    IN  \/ Kind(a) < Kind(b)
        \/ /\ Kind(a) = Kind(b)
           /\ \/ CategoryRank(a.category) < CategoryRank(b.category)
              \/ /\ CategoryRank(a.category) = CategoryRank(b.category)
                 /\ a.created_at < b.created_at

\* C18: get_records returns every row of the user in the range exactly once,
\* ordered by kind with all income before all expense, then by category
\* ascending (null treated as the empty text, so first), then by creation time
\* ascending.
C18_RecordsOrdered ==
    ret.fn = "get_records" =>
        /\ Len(ret.val) = Cardinality(RangeIndices)
        /\ \A i \in RangeIndices :
              Cardinality({j \in 1..Len(ret.val) : ret.val[j] = RowOf(records[i])})
                = Cardinality({j \in RangeIndices : RowOf(records[j]) = RowOf(records[i])})
        /\ \A i, j \in 1..Len(ret.val) :
              i < j => ~IncomeFirstBefore(ret.val[j], ret.val[i])

(***************************************************************************)
(* C19: the table only grows, and only at the end of an entry dialog       *)
(***************************************************************************)
\* the states in which an entry dialog waits for its last message
FinalStates == {"INCOME_LINE", "EXPENSE_LINE", "INCOME_DESC", "EXPENSE_DESC"}

\* C19: after every step the table holds every record it held before,
\* unchanged and in place; a step adds at most one record, and only when the
\* message was handled by the final step of an income or expense dialog of
\* the sender, whose record it is.
C19_AppendOnly ==
    [][ /\ Len(records') >= Len(records)
        /\ SubSeq(records', 1, Len(records)) = records
        /\ Len(records') <= Len(records) + 1
        /\ records' # records =>
              /\ out'.conv \in {"income_conv", "expense_conv"}
              /\ out'.handler \in InsertHandlers
              /\ conv[out'.user][out'.conv] \in FinalStates
              /\ records'[Len(records')].user_id = out'.user ]_vars

\* a second record was appended to a table that held a record of another user
C19_Witness ==
    /\ Len(records) = 2
    /\ records[1].user_id # records[2].user_id
    /\ out.reply \in {"income_saved", "expense_saved"}
    /\ out.user = records[2].user_id

(***************************************************************************)
(* C20: handling a user's message leaves the other users alone             *)
(***************************************************************************)
\* C20: for all distinct users a and b, handling a message of a leaves every
\* dialog state of b and the scratch mapping of b as they were, and adds no
\* record whose user_id is b, however the messages of the two interleave.
C20_OtherUsersUntouched ==
    [][ \A b \in AllUsers :
            b # out'.user =>
                /\ conv'[b] = conv[b]
                /\ user_data'[b] = user_data[b]
                /\ \A i \in (Len(records) + 1)..Len(records') : records'[i].user_id # b ]_vars

\* user 1 saved an expense while user 2 was in the middle of a statistics
\* dialog with a range stored: the record is of user 1 and user 2 is where they were
C20_Witness ==
    /\ out.user = 1
    /\ out.reply = "expense_saved"
    /\ conv[2]["stats_conv"] = "STATS_DETAIL_LEVEL"
    /\ "stats_range" \in DOMAIN user_data[2]
    /\ "expense_category" \notin DOMAIN user_data[2]
    /\ records # <<>>
    /\ \A i \in 1..Len(records) : records[i].user_id = 1

(***************************************************************************)
(* C21: the outcomes of parse_amount_and_text, in order                    *)
(***************************************************************************)
\* the position of the first comma of line, 0 when there is none
FirstComma(line) ==
    IF \E i \in 1..Len(line) : line[i] = ","
    THEN Least({i \in 1..Len(line) : line[i] = ","})
    ELSE 0

\* s is blank: empty or white space only
Blank(s) == \A i \in 1..Len(s) : IsSpace(s[i])

\* s reads as a number, and the number is > 0 (nan is not a number)
PositiveNumber(s) ==
    LET f == PyFloat(s)
    IN  /\ f.ok
        /\ f.special # "nan"
        /\ ~f.neg
        /\ f.special = "inf" \/ f.num > 0

\* the outcome the line is to have; white space around the text before the
\* first comma is no part of the number
ExpectedOutcome(line) ==
    LET k == FirstComma(line)
    IN  IF Lower(Strip(line)) \in {T_otmena, T_slash_cancel, T_cancel} THEN "cancel"
        ELSE IF k = 0 THEN "format"
        ELSE IF ~PositiveNumber(Strip(SubSeq(line, 1, k - 1))) THEN "amount"
        ELSE IF Blank(SubSeq(line, k + 1, Len(line))) THEN "desc"
        ELSE "ok"

\* C21: parse_amount_and_text gives every line exactly one outcome, chosen in
\* this order: cancel when the trimmed lower-cased line is a cancel keyword,
\* else format when the line has no comma, else amount when the text before the
\* first comma is not a number > 0, else desc when the text after the first
\* comma is blank, else success.
C21_OutcomeOrder ==
    ret.fn = "parse_amount_and_text" => ret.val.err = ExpectedOutcome(arg)

(***************************************************************************)
(* C22: category extraction                                                *)
(***************************************************************************)
\* label occurs in text as a substring
Occurs(label, text) ==
    \E k \in 1..Len(text) :
        /\ k + Len(label) - 1 <= Len(text)
        /\ \A j \in 1..Len(label) : text[k + j - 1] = label[j]

\* the first category from position i of the list on whose label occurs in text
RECURSIVE FirstLabelFrom(_, _)
FirstLabelFrom(i, text) ==
    IF i > 5 THEN NoneText
    ELSE IF Occurs(<<C_Eda, C_Dom, C_Kommunalka, C_Dosug, C_NZ>>[i], text)
    THEN <<C_Eda, C_Dom, C_Kommunalka, C_Dosug, C_NZ>>[i]
    ELSE FirstLabelFrom(i + 1, text)

\* C22: both extraction functions return, for every text, the first category in
\* the order Еда, Дом, Коммуналка, Досуг, НЗ whose label is a substring of the
\* text, and none when no label occurs, so the two return the same on every
\* text; the step that handles an answer to the category prompt holding no
\* label leaves the expense dialog in EXPENSE_CATEGORY, stores nothing and asks
\* for a category again, and the step that handles an answer holding a label
\* stores that category and, once its reply is sent, leaves EXPENSE_CATEGORY.
C22_CategoryExtraction ==
    /\ [](/\ ret.fn = "extract_category" =>
              /\ ret.val = FirstLabelFrom(1, arg)
              /\ ret.val = extract_category_from_button(arg)
          /\ ret.fn = "extract_category_from_button" =>
              /\ ret.val = FirstLabelFrom(1, arg)
              /\ ret.val = extract_category(arg))
    /\ [][out'.handler = "expense_category" =>
            IF FirstLabelFrom(1, msg'.text) = NoneText
            THEN /\ conv'[out'.user]["expense_conv"] = "EXPENSE_CATEGORY"
                 /\ conv' = conv
                 /\ user_data' = user_data
                 /\ records' = records
                 /\ (out'.reply = "choose_category" \/ ReplyFailed(out'))
            ELSE /\ user_data'[out'.user]["expense_category"] = FirstLabelFrom(1, msg'.text)
                 /\ (conv'[out'.user]["expense_conv"] # "EXPENSE_CATEGORY" \/ ReplyFailed(out'))
       ]_vars

\* the text "Дом и Еда" gave Еда, the first in the order of the list though
\* the second in the text, and the dialog stored it
C22_Witness ==
    /\ arg = C_Dom \o <<" ", "cy_i", " ">> \o C_Eda
    /\ ret.fn = "extract_category_from_button"
    /\ ret.val = C_Eda
    /\ out.handler = "expense_category"
    /\ user_data[1]["expense_category"] = C_Eda


(***************************************************************************)
(* Month ranges: the range of the current month and of a picked month      *)
(***************************************************************************)
\* the months typed, as "MM-YY" with YY of the years 2000, 2025 and the last
\* years of the calendar, and texts that are no month
MonthTexts ==
    {Fmt02d(mm) \o <<"-">> \o Fmt02d(yy) : mm \in 1..12, yy \in {0, 25, 7998, 7999, 8000}}
    \cup { <<"1", "3", "-", "2", "5">>, <<"1", "1">>, <<"x">> }

\* the clock is in the middle of December 2025, at the first instant of January
\* 2026, or in the middle of one of the last two months of the calendar; the
\* machine is in one of the zones, the local time within the calendar
InitMonth ==
    /\ rev \in {"bot", "gs"}
    /\ conv = [u \in {1} |-> Idle]
    /\ user_data = [u \in {1} |-> EmptyDict]
    /\ records = <<>>
    /\ now \in {StartInstant, MonthStart(2026, 1),
                MonthStart(MAXYEAR, 11) + 1, MonthStart(MAXYEAR, 12) + 1}
    /\ zone \in {z \in Zones : now + z < MonthStart(MAXYEAR + 1, 1)}
    /\ msg = NoMsg
    /\ out = NoOut
    /\ arg \in MonthTexts
    /\ ret = NoRet
    /\ chat = <<>>

\* the two range functions, and main() over the statistics button, the two
\* period buttons that lead to a range and the text drawn, in every state
\* these messages lead to
NextMonth ==
    \/ Apply("get_current_month_range", get_current_month_range(now + zone))
    \/ parse_month_mm_yy(Strip(arg)).ok
           /\ Apply("month_range", month_range(parse_month_mm_yy(Strip(arg)).year,
                                               parse_month_mm_yy(Strip(arg)).month))
    \/ \E m \in {Text(T_Stats), Text(T_CurrentMonth), Text(T_ChooseMonth), Text(arg)} : Bot_main_stats(1, m)
    \/ \E m \in {Text(T_Stats), Text(T_CurrentMonth), Text(T_ChooseMonth), Text(arg)} : GS_main_stats(1, m)

SpecMonth == InitMonth /\ [][NextMonth]_vars

\* the month the text arg names
PickedMonth == parse_month_mm_yy(Strip(arg))

\* the month after (year, month)
Following(year, month) ==
    IF month = 12 THEN [year |-> year + 1, month |-> 1] ELSE [year |-> year, month |-> month + 1]

\* r is the range of the month (year, month): from its first instant to the first
\* instant of the month after, which is where the range of that month, when it
\* is built, begins
IsMonthRange(r, year, month) ==
    LET f == Following(year, month)
    IN  /\ r.err = ""
        /\ r.date_from = MonthStart(year, month)
        /\ r.date_to = MonthStart(f.year, f.month)
        /\ r.date_from < r.date_to
        /\ month_range(f.year, f.month).err = ""
               => month_range(f.year, f.month).date_from = r.date_to

\* C23: for every month of the calendar, the current month and a picked month
\* alike, the range built runs from the first instant of the month to the first
\* instant of the month after (January of the next year after December), and
\* the range of the month after begins where it ends
C23_MonthRanges ==
    /\ ret.fn = "get_current_month_range"
           => IsMonthRange(ret.val, YearOf(now + zone), MonthOf(now + zone))
    /\ (ret.fn = "month_range" /\ PickedMonth.year <= MAXYEAR)
           => IsMonthRange(ret.val, PickedMonth.year, PickedMonth.month)
    /\ (rev = "bot" /\ out.handler = "stats_custom_month" /\ PickedMonth.ok
        /\ PickedMonth.year <= MAXYEAR)
           => /\ out.reply = "ask_detail"
              /\ user_data[1]["stats_range"][1] = MonthStart(PickedMonth.year, PickedMonth.month)
              /\ user_data[1]["stats_range"][2] =
                     MonthStart(Following(PickedMonth.year, PickedMonth.month).year,
                                Following(PickedMonth.year, PickedMonth.month).month)


\* C24: in STATS_CUSTOM_MONTH every text, months past the last year of the
\* calendar included, is answered in one of two ways: the invalid-format
\* re-prompt with the state kept, or a range with date_from < date_to and the
\* dialog moving on; the handler never ends with a fault and no reply.
\* (A failure of the store is left aside.)
C24_MonthTextAnswered ==
    (out.handler = "stats_custom_month" /\ ~StoreFailed(out)) =>
        \/ /\ out.reply = "bad_month"
           /\ conv[1]["stats_conv"] = "STATS_CUSTOM_MONTH"
        \/ /\ rev = "bot"
           /\ out.reply = "ask_detail"
           /\ conv[1]["stats_conv"] = "STATS_DETAIL_LEVEL"
           /\ user_data[1]["stats_range"][1] < user_data[1]["stats_range"][2]
        \/ /\ rev = "gs"
           /\ out.reply = "stats"
           /\ conv[1]["stats_conv"] = END
           /\ month_range(PickedMonth.year, PickedMonth.month).date_from
                  < month_range(PickedMonth.year, PickedMonth.month).date_to


(***************************************************************************)
(* The edges of the dialogs                                                *)
(***************************************************************************)
\* the first state of dialog d
FirstState(d) ==
    CASE d = "income_conv" -> IF rev = "bot" THEN "INCOME_LINE" ELSE "INCOME_AMOUNT"
      [] d = "expense_conv" -> "EXPENSE_CATEGORY"
      [] d = "stats_conv" -> "STATS_PERIOD"

\* the states that come immediately after state s
Successors(s) ==
    IF rev = "gs"
    THEN CASE s = "INCOME_AMOUNT" -> {"INCOME_DESC"}
           [] s = "EXPENSE_CATEGORY" -> {"EXPENSE_AMOUNT"}
           [] s = "EXPENSE_AMOUNT" -> {"EXPENSE_DESC"}
           [] s = "STATS_PERIOD" -> {"STATS_CUSTOM_MONTH"}
           [] OTHER -> {}
    ELSE CASE s = "EXPENSE_CATEGORY" -> {"EXPENSE_LINE"}
           [] s = "STATS_PERIOD" -> {"STATS_CUSTOM_MONTH", "STATS_DETAIL_LEVEL"}
           [] s = "STATS_CUSTOM_MONTH" -> {"STATS_DETAIL_LEVEL"}
           [] OTHER -> {}

\* this step moves dialog d of user u along an edge
AlongEdge(u, d) ==
    \/ conv'[u][d] = conv[u][d]
    \/ conv'[u][d] = END
    \/ conv[u][d] = END /\ conv'[u][d] = FirstState(d) /\ Enters(u, msg', d)
    \/ conv[u][d] # END /\ conv'[u][d] \in Successors(conv[u][d])

\* user u sends /cancel and fewer of their dialogs are left active
CancelCloses(u) ==
    /\ Bot_main(u, Command("cancel")) \/ GS_main(u, Command("cancel"))
    /\ Active(u)' # Active(u)
    /\ Active(u)' \subseteq Active(u)

\* C25: every step moves every dialog along an edge (it stays, it goes
\* idle, it is entered from idle by its entry command or button, or it goes to
\* an immediate successor), and while a dialog of a user is not idle, /cancel
\* closes one, so that idle can be reached from every state
C25_DialogEdges ==
    /\ [][\A u \in Users, d \in Dialogs : AlongEdge(u, d)]_vars
    /\ [](\A u \in Users : Active(u) # {} => ENABLED CancelCloses(u))

\* the expense dialog of the 6-state revision went from EXPENSE_CATEGORY to
\* EXPENSE_LINE while the stats dialog, entered before it, waits for its month
C25_Witness ==
    /\ rev = "bot"
    /\ out.handler = "expense_category"
    /\ conv[1]["expense_conv"] = "EXPENSE_LINE"
    /\ conv[1]["stats_conv"] = "STATS_CUSTOM_MONTH"

(***************************************************************************)
(* Where the fields of a record come from                                  *)
(***************************************************************************)
\* the states of the expense dialog after the category is chosen
AfterCategory == {"EXPENSE_LINE", "EXPENSE_AMOUNT", "EXPENSE_DESC"}

\* the category the text of message m selects
CategoryOf(m) ==
    IF rev = "bot" THEN extract_category(m.text) ELSE extract_category_from_button(Strip(m.text))

\* the amount the text of message m enters (7-state revision)
AmountOf(m) == Amount(PyFloat(Strip(Replace(m.text, ",", "."))))

\* this step moves dialog d of user u from state s to state t, storing under
\* key k the value v that its message gives; and while the dialog is in
\* state t, the value under k stays
Collects(u, d, s, t, k, v) ==
    /\ (conv[u][d] = s /\ conv'[u][d] = t)
           => (out'.user = u /\ out'.conv = d /\ k \in DOMAIN user_data'[u] /\ user_data'[u][k] = v)
    /\ (conv[u][d] = t /\ conv'[u][d] = t)
           => (k \in DOMAIN user_data[u] /\ k \in DOMAIN user_data'[u]
               /\ user_data'[u][k] = user_data[u][k])

\* this step adds a row
Inserts == Len(records') = Len(records) + 1

\* the row this step adds
NewRow == records'[Len(records')]

\* C26: the category stored when the expense dialog leaves EXPENSE_CATEGORY is
\* the one the message selects, and it stays as it is until the dialog ends;
\* so do the amounts of the 7-state revision from EXPENSE_AMOUNT and
\* INCOME_AMOUNT on; and a row that is inserted is inserted by the dialog of
\* its user and type in its last state, with that category and that amount
C26_RecordFromItsDialog ==
    [][\A u \in Users :
        /\ \A t \in AfterCategory :
               Collects(u, "expense_conv", "EXPENSE_CATEGORY", t, "expense_category", CategoryOf(msg'))
        /\ \A t \in AfterCategory \ {"EXPENSE_AMOUNT"} :
               conv[u]["expense_conv"] = "EXPENSE_AMOUNT" /\ conv'[u]["expense_conv"] = t
                   => user_data'[u]["expense_category"] = user_data[u]["expense_category"]
        /\ Collects(u, "expense_conv", "EXPENSE_AMOUNT", "EXPENSE_DESC", "expense_amount", AmountOf(msg'))
        /\ Collects(u, "income_conv", "INCOME_AMOUNT", "INCOME_DESC", "income_amount", AmountOf(msg'))
        /\ (Inserts /\ NewRow.user_id = u /\ NewRow.type = "expense")
               => /\ out'.conv = "expense_conv"
                  /\ conv[u]["expense_conv"] \in {"EXPENSE_LINE", "EXPENSE_DESC"}
                  /\ NewRow.category = user_data[u]["expense_category"]
                  /\ rev = "gs" => NewRow.amount = ToNumeric(user_data[u]["expense_amount"])
        /\ (Inserts /\ NewRow.user_id = u /\ NewRow.type = "income" /\ rev = "gs")
               => /\ out'.conv = "income_conv"
                  /\ conv[u]["income_conv"] = "INCOME_DESC"
                  /\ NewRow.amount = ToNumeric(user_data[u]["income_amount"])
      ]_vars

(***************************************************************************)
(* One record for one completed dialog                                     *)
(***************************************************************************)
\* the replies that confirm a saved record
Saved == {"income_saved", "expense_saved"}

\* C27: the step that inserts a row is the step that sends the confirmation
\* and ends the dialog, so that a dialog run from its entry to its completion
\* adds one row, a failed confirmation and a resent message included; and a
\* confirmation is sent only by a step that has inserted the row of its user
C27_OneRecordPerDialog ==
    [][\A u \in Users :
        /\ (Inserts /\ NewRow.user_id = u)
               => /\ out'.user = u
                  /\ out'.reply \in Saved
                  /\ conv'[u][out'.conv] = END
        /\ (out'.user = u /\ out'.reply \in Saved)
               => (Inserts /\ NewRow.user_id = u)
      ]_vars

(***************************************************************************)
(* /start                                                                  *)
(***************************************************************************)
\* C28: /start only shows the main menu, whatever the state: the dialogs, the
\* scratch and the table stay as they are; and the text the user sends next is
\* taken, as its input, by a dialog that was active before /start
C28_StartShowsMenuOnly ==
    [][/\ msg'.command = "start"
           => /\ out'.handler = "start"
              /\ (out'.reply = "menu" \/ ReplyFailed(out'))
              /\ conv' = conv
              /\ user_data' = user_data
              /\ records' = records
       /\ \A u \in Users :
              (/\ out.handler = "start"
               /\ out.user = u
               /\ Active(u) # {}
               /\ out'.user = u
               /\ IsText(msg'))
                  => out'.conv \in Active(u)
      ]_vars

(***************************************************************************)
(* The range the report of the 6-state revision is made for                *)
(***************************************************************************)
\* the range and label that message m chooses in state s of the stats dialog,
\* the current month being the month of the local date the step reads
ChosenRange(s, m) ==
    LET picked == parse_month_mm_yy(Strip(m.text))
        after == Following(picked.year, picked.month)
    IN  IF s = "STATS_CUSTOM_MONTH"
        THEN <<MonthStart(picked.year, picked.month), MonthStart(after.year, after.month),
               MonthLabel(picked.year, picked.month)>>
        ELSE IF Strip(m.text) = T_AllTime
        THEN <<NoneDate, NoneDate, T_AllTime>>
        ELSE <<MonthStart(YearOf(now' + zone), MonthOf(now' + zone)),
               MonthStart(Following(YearOf(now' + zone), MonthOf(now' + zone)).year,
                          Following(YearOf(now' + zone), MonthOf(now' + zone)).month),
               T_CurrentMonth>>

\* this step is stats_detail_level of user u sending a report
Reporting(u) ==
    /\ out'.user = u
    /\ out'.handler = "stats_detail_level"
    /\ out'.reply \in {"summary", "detailed", "no_records"}

\* C29: in the 6-state revision the step that takes the stats dialog to
\* STATS_DETAIL_LEVEL stores the range and label its message chooses, every
\* step that leaves the dialog there leaves them as they are, "period not
\* found" is never the answer, and a report is made for that range and label
C29_RangeOfThisDialog ==
    [][\A u \in Users :
        /\ \A s \in {"STATS_PERIOD", "STATS_CUSTOM_MONTH"} :
               Collects(u, "stats_conv", s, "STATS_DETAIL_LEVEL", "stats_range",
                        ChosenRange(s, msg'))
        /\ out'.reply # "period_not_found"
        /\ Reporting(u) =>
               LET sr == user_data[u]["stats_range"]
                   stats == get_stats(u, sr[1], sr[2])
                   rows == get_records(u, sr[1], sr[2])
               IN  /\ conv[u]["stats_conv"] = "STATS_DETAIL_LEVEL"
                   /\ out'.reply = "summary" =>
                          out'.body = send_summary_stats(stats.sums, stats.categories, sr[3])
                   /\ out'.reply = "detailed" =>
                          (rows # <<>> /\ out'.body = send_detailed_stats(rows, sr[3]))
                   /\ out'.reply = "no_records" =>
                          (rows = <<>> /\ out'.body = [label |-> sr[3]])
      ]_vars

\* the summary of the current month, December 2025, chosen in this dialog, over
\* a table that holds three rows of the user
C29_Witness ==
    /\ rev = "bot"
    /\ out.handler = "stats_detail_level"
    /\ out.reply = "summary"
    /\ out.body = send_summary_stats(get_stats(1, MonthStart(2025, 12), MonthStart(2026, 1)).sums,
                                     get_stats(1, MonthStart(2025, 12), MonthStart(2026, 1)).categories,
                                     T_CurrentMonth)
    /\ user_data[1]["stats_range"] = <<MonthStart(2025, 12), MonthStart(2026, 1), T_CurrentMonth>>
    /\ Len(records) = 3
    /\ \A i \in 1..3 : records[i].user_id = 1 /\ records[i].created_at = StartInstant

====
